---- MODULE Spec2Model ----
(***************************************************************************)
(* Gorilla time-series codec: BitBuffer / BitReader, Encoder, Decoder and  *)
(* the lazy DecoderIter, modelled bit for bit.                              *)
(*                                                                         *)
(* Representation.  A u64 (and an i64, in two's complement) is the set of  *)
(* the positions of its 1 bits, a subset of 0..63: bit 63 is the most      *)
(* significant bit and the sign.  A byte of the buffer is a number 0..255. *)
(* A u8 field (bit_count, prev_leading_zeros, ...) is a number.            *)
(***************************************************************************)
EXTENDS Integers, Sequences, FiniteSets, TLC

\* ------------------------------------------------------------------ words

Bits64 == 0..63

\* 0xFFFF_FFFF_FFFF_FFFF
U64_MAX == Bits64

RECURSIVE Pow2(_)
Pow2(n) == IF n = 0 THEN 1 ELSE 2 * Pow2(n - 1)

\* for i in lo..=hi { s = F(s, i) }: the state after the loop.  The range is
\* split in halves and the state of the first half is evaluated before the
\* second half starts, which keeps the evaluation shallow.
RECURSIVE ForLoop(_, _, _, _)
ForLoop(F(_, _), s, lo, hi) ==
    IF lo > hi THEN s
    ELSE IF lo = hi THEN F(s, lo)
    ELSE LET mid == (lo + hi) \div 2
             left == ForLoop(F, s, lo, mid)
         IN IF left = left THEN ForLoop(F, left, mid + 1, hi) ELSE s

\* let x = ...; F(x): the value is computed once and named.
Bind(x, F(_)) == F(x)

SetMax(s) == CHOOSE x \in s : \A y \in s : y <= x
SetMin(s) == CHOOSE x \in s : \A y \in s : x <= y

\* a ^ b on u64
Xor(a, b) == (a \ b) \cup (b \ a)

\* u64::leading_zeros / u64::trailing_zeros
leading_zeros(x) == IF x = {} THEN 64 ELSE 63 - SetMax(x)
trailing_zeros(x) == IF x = {} THEN 64 ELSE SetMin(x)

\* x >> k and x << k on u64, for 0 <= k < 64 (bits shifted out are dropped)
Shr(x, k) == {i - k : i \in {j \in x : j >= k}}
Shl(x, k) == {i + k : i \in {j \in x : j + k <= 63}}

\* The u64 whose value is the natural number n (n < 2^31).
RECURSIVE NatBits(_, _)
NatBits(n, i) == IF n = 0 THEN {}
                 ELSE (IF n % 2 = 1 THEN {i} ELSE {}) \cup NatBits(n \div 2, i + 1)
U64(n) == NatBits(n, 0)

\* The value of the low k bits of x as a natural number (k <= 30).
RECURSIVE LowNat(_, _)
LowNat(x, k) == IF k = 0 THEN 0
                ELSE (IF (k - 1) \in x THEN Pow2(k - 1) ELSE 0) + LowNat(x, k - 1)

\* Two's-complement addition a + b + c modulo 2^64: a full adder per bit, from
\* bit 0 up, the carry out of bit 63 dropped.
AddC(a, b, c) ==
    ForLoop(LAMBDA s, i :
                LET t == (IF i \in a THEN 1 ELSE 0) + (IF i \in b THEN 1 ELSE 0) + s.carry
                IN [sum |-> IF t % 2 = 1 THEN s.sum \cup {i} ELSE s.sum,
                    carry |-> t \div 2],
            [sum |-> {}, carry |-> c], 0, 63).sum

wrapping_add(a, b) == AddC(a, b, 0)
wrapping_sub(a, b) == AddC(a, Bits64 \ b, 1)

\* Signed (i64) overflow of a + b and of a - b.
add_overflows(a, b) ==
    ((63 \in a) = (63 \in b)) /\ ((63 \in wrapping_add(a, b)) # (63 \in a))
sub_overflows(a, b) ==
    ((63 \in a) # (63 \in b)) /\ ((63 \in wrapping_sub(a, b)) # (63 \in a))

\* The i64 x as a number, defined when x lies in -2^30 .. 2^30 - 1.
IsSmallI64(x) == \/ (30..63) \cap x = {}
                 \/ (30..63) \subseteq x
I64ToInt(x) == IF 63 \in x THEN LowNat(x, 30) - Pow2(30) ELSE LowNat(x, 30)

\* The i64 whose value is the number n (-2^31 < n < 2^31).
I64(n) == IF n >= 0 THEN U64(n) ELSE Bits64 \ U64(-n - 1)

\* lo <= x && x <= hi on i64, for number bounds lo, hi within -2^30 .. 2^30 - 1.
I64InRange(x, lo, hi) == IsSmallI64(x) /\ lo <= I64ToInt(x) /\ I64ToInt(x) <= hi

\* ------------------------------------------------------------- BitBuffer

\* max_bytes: Option<usize>; None is NoLimit.
NoLimit == -1

\* BitBuffer::new / with_capacity / with_limit
BitBuffer_new == [bytes |-> <<>>, bit_count |-> 0, max_bytes |-> NoLimit]
BitBuffer_with_limit(max_bytes) ==
    [bytes |-> <<>>, bit_count |-> 0, max_bytes |-> max_bytes]

\* BitBuffer::with_capacity: the capacity is an allocation hint, not a limit.
BitBuffer_with_capacity(capacity) ==
    [bytes |-> <<>>, bit_count |-> 0, max_bytes |-> NoLimit]

\* BitBuffer::from_raw: [res, buf].  The debug_assert aborts a debug build when
\* total_bits exceeds the bytes; bytes is kept whole and bit_count is
\* total_bits % 8, or 8 when that is 0.
BitBuffer_from_raw(bytes, total_bits, checks) ==
    LET full_bytes == total_bits \div 8
        remaining == total_bits % 8
    IN IF checks /\ ~(\/ full_bytes < Len(bytes)
                      \/ (full_bytes = Len(bytes) /\ remaining = 0))
       THEN [res |-> "Panic", buf |-> BitBuffer_new]
       ELSE [res |-> "Ok",
             buf |-> [bytes |-> bytes,
                      bit_count |-> IF remaining = 0 THEN 8 ELSE remaining,
                      max_bytes |-> NoLimit]]

\* BitBuffer::set_limit
set_limit(b, max_bytes) == [b EXCEPT !.max_bytes = max_bytes]

len_bits(b) == IF b.bytes = <<>> THEN 0 ELSE (Len(b.bytes) - 1) * 8 + b.bit_count

\* Bit k (0 = least significant) of the byte x, and x | (1 << k).
ByteBit(x, k) == (x \div Pow2(k)) % 2 = 1
ByteOr(x, k) == IF ByteBit(x, k) THEN x ELSE x + Pow2(k)

WOk(b) == [ok |-> TRUE, buf |-> b]
WErr(b) == [ok |-> FALSE, buf |-> b]

\* write_bit with the limit test off by one (> for >=): one byte too many fits.
write_bit_gt(b, bit) ==
    LET grow == b.bit_count = 0 \/ b.bit_count = 8
        b1 == IF grow THEN [b EXCEPT !.bytes = Append(@, 0), !.bit_count = 0] ELSE b
        n == Len(b1.bytes)
        b2 == IF bit THEN [b1 EXCEPT !.bytes[n] = ByteOr(@, 7 - b1.bit_count)] ELSE b1
    IN IF grow /\ b.max_bytes # NoLimit /\ Len(b.bytes) > b.max_bytes
       THEN WErr(b)
       ELSE WOk([b2 EXCEPT !.bit_count = @ + 1])

\* write_bit with bit_count += 1 only for a set bit: a 0 bit is not counted.
write_bit_skip_zero(b, bit) ==
    LET grow == b.bit_count = 0 \/ b.bit_count = 8
        b1 == IF grow THEN [b EXCEPT !.bytes = Append(@, 0), !.bit_count = 0] ELSE b
        n == Len(b1.bytes)
    IN IF grow /\ b.max_bytes # NoLimit /\ Len(b.bytes) >= b.max_bytes
       THEN WErr(b)
       ELSE IF bit
       THEN WOk([b1 EXCEPT !.bytes[n] = ByteOr(@, 7 - b1.bit_count), !.bit_count = @ + 1])
       ELSE WOk(b1)

\* write_bit filling each byte from its least significant bit: 1 << bit_count.
write_bit_from_low(b, bit) ==
    LET grow == b.bit_count = 0 \/ b.bit_count = 8
        b1 == IF grow THEN [b EXCEPT !.bytes = Append(@, 0), !.bit_count = 0] ELSE b
        n == Len(b1.bytes)
        b2 == IF bit THEN [b1 EXCEPT !.bytes[n] = ByteOr(@, b1.bit_count)] ELSE b1
    IN IF grow /\ b.max_bytes # NoLimit /\ Len(b.bytes) >= b.max_bytes
       THEN WErr(b)
       ELSE WOk([b2 EXCEPT !.bit_count = @ + 1])

\* write_bit testing the limit on every bit, not only when a byte is started: at
\* the cap the free bits of the tail byte are refused too.
write_bit_cap_every_bit(b, bit) ==
    LET grow == b.bit_count = 0 \/ b.bit_count = 8
        b1 == IF grow THEN [b EXCEPT !.bytes = Append(@, 0), !.bit_count = 0] ELSE b
        n == Len(b1.bytes)
        b2 == IF bit THEN [b1 EXCEPT !.bytes[n] = ByteOr(@, 7 - b1.bit_count)] ELSE b1
    IN IF b.max_bytes # NoLimit /\ Len(b.bytes) >= b.max_bytes
       THEN WErr(b)
       ELSE WOk([b2 EXCEPT !.bit_count = @ + 1])

\* write_bit setting the bit whatever its argument: a false bit is written as 1.
write_bit_sets_always(b, bit) ==
    LET grow == b.bit_count = 0 \/ b.bit_count = 8
        b1 == IF grow THEN [b EXCEPT !.bytes = Append(@, 0), !.bit_count = 0] ELSE b
        n == Len(b1.bytes)
        b2 == [b1 EXCEPT !.bytes[n] = ByteOr(@, 7 - b1.bit_count)]
    IN IF grow /\ b.max_bytes # NoLimit /\ Len(b.bytes) >= b.max_bytes
       THEN WErr(b)
       ELSE WOk([b2 EXCEPT !.bit_count = @ + 1])

\* BitBuffer::write_bit: Err(BufferFull) when a new byte would exceed the limit.
write_bit(b, bit) ==
    LET grow == b.bit_count = 0 \/ b.bit_count = 8
        b1 == IF grow THEN [b EXCEPT !.bytes = Append(@, 0), !.bit_count = 0] ELSE b
        n == Len(b1.bytes)
        b2 == IF bit THEN [b1 EXCEPT !.bytes[n] = ByteOr(@, 7 - b1.bit_count)] ELSE b1
    IN IF grow /\ b.max_bytes # NoLimit /\ Len(b.bytes) >= b.max_bytes
       THEN WErr(b)
       ELSE WOk([b2 EXCEPT !.bit_count = @ + 1])

\* write_bits in the order 0..n instead of (0..n).rev(): least significant first.
write_bits_lsb_first(b, value, n) ==
    IF n = 0 THEN WOk(b)
    ELSE ForLoop(LAMBDA s, k : IF s.ok THEN write_bit(s.buf, k \in value) ELSE s,
                 WOk(b), 0, n - 1)

\* write_bits made atomic: on BufferFull the buffer is left as it was.
write_bits_atomic(b, value, n) ==
    IF n = 0 THEN WOk(b)
    ELSE Bind(ForLoop(LAMBDA s, k :
                          IF s.ok THEN write_bit(s.buf, (n - 1 - k) \in value) ELSE s,
                      WOk(b), 0, n - 1),
              LAMBDA r : IF r.ok THEN r ELSE WErr(b))

\* BitBuffer::write_bits(value, n): for i in (0..n).rev() { write_bit(bit i)? },
\* the lowest n bits of value, most significant first, stopping at the first Err.
write_bits(b, value, n) ==
    IF n = 0 THEN WOk(b)
    ELSE ForLoop(LAMBDA s, k : IF s.ok THEN write_bit(s.buf, (n - 1 - k) \in value) ELSE s,
                 WOk(b), 0, n - 1)

\* The `?` operator on a write: continue with F on Ok, return the Err otherwise.
AndThen(r, F(_)) == IF r.ok THEN F(r.buf) ELSE r

\* ------------------------------------------------------------- BitReader

BitReader_from_raw(bytes, total_bits) ==
    [bytes |-> bytes, total_bits |-> total_bits, pos |-> 0]

\* BitReader::new(&buffer)
BitReader_new(buffer) ==
    [bytes |-> buffer.bytes, total_bits |-> len_bits(buffer), pos |-> 0]

remaining(r) == IF r.total_bits >= r.pos THEN r.total_bits - r.pos ELSE 0

RNone(r) == [some |-> FALSE, value |-> {}, bit |-> FALSE, reader |-> r]

\* read_bit bounded by the bytes that are physically present, not by total_bits.
read_bit_to_last_byte(r) ==
    IF r.pos >= 8 * Len(r.bytes) THEN RNone(r)
    ELSE LET byte_idx == r.pos \div 8
             bit_idx == r.pos % 8
         IN [some |-> TRUE, value |-> {},
             bit |-> ByteBit(r.bytes[byte_idx + 1], 7 - bit_idx),
             reader |-> [r EXCEPT !.pos = @ + 1]]

\* BitReader::read_bit
read_bit(r) ==
    IF r.pos >= r.total_bits THEN RNone(r)
    ELSE LET byte_idx == r.pos \div 8
             bit_idx == r.pos % 8
         IN [some |-> TRUE, value |-> {},
             bit |-> ByteBit(r.bytes[byte_idx + 1], 7 - bit_idx),
             reader |-> [r EXCEPT !.pos = @ + 1]]

\* BitReader::peek_bit: the next bit, the position unchanged
peek_bit(r) ==
    IF r.pos >= r.total_bits THEN RNone(r)
    ELSE LET byte_idx == r.pos \div 8
             bit_idx == r.pos % 8
         IN [some |-> TRUE, value |-> {},
             bit |-> ByteBit(r.bytes[byte_idx + 1], 7 - bit_idx),
             reader |-> r]

\* BitReader::read_bits(n): None, and no bit consumed, if fewer than n bits remain;
\* otherwise for _ in 0..n { value = (value << 1) | read_bit()? }.
read_bits(r, n) ==
    IF n = 0 THEN [some |-> TRUE, value |-> {}, bit |-> FALSE, reader |-> r]
    ELSE IF remaining(r) < n THEN RNone(r)
    ELSE ForLoop(LAMBDA s, k :
                     Bind(read_bit(s.reader), LAMBDA b :
                     IF ~s.some \/ ~b.some THEN RNone(b.reader)
                     ELSE [some |-> TRUE,
                           value |-> Shl(s.value, 1) \cup (IF b.bit THEN {0} ELSE {}),
                           bit |-> FALSE, reader |-> b.reader]),
                 [some |-> TRUE, value |-> {}, bit |-> FALSE, reader |-> r], 1, n)

\* --------------------------------------------------------------- Encoder

\* DataPoint { timestamp: u64, value: f64 }; value is its to_bits() pattern.
DataPoint_new(timestamp, value) == [timestamp |-> timestamp, value |-> value]

\* An Encoder whose window starts at (0, 0), as the decoder's does, instead of
\* the sentinel (64, 64): the first non-zero XOR fits the "previous" window.
Encoder_with_buf_zero_window(buf) ==
    [buf |-> buf, count |-> 0, prev_timestamp |-> {}, prev_delta |-> {},
     prev_value_bits |-> {}, prev_leading_zeros |-> 0, prev_trailing_zeros |-> 0,
     finished |-> FALSE]

\* with_limit starting from an all-zero window (0, 0) instead of (MAX, MAX):
\* the limited encoder's first changed value reuses a 64-bit window.
Encoder_with_limit_zero_window(max_bytes) ==
    [buf |-> BitBuffer_with_limit(max_bytes), count |-> 0, prev_timestamp |-> {},
     prev_delta |-> {}, prev_value_bits |-> {}, prev_leading_zeros |-> 0,
     prev_trailing_zeros |-> 0, finished |-> FALSE]

\* Encoder::new / Encoder::with_limit
Encoder_with_buf(buf) ==
    [buf |-> buf, count |-> 0, prev_timestamp |-> {}, prev_delta |-> {},
     prev_value_bits |-> {}, prev_leading_zeros |-> 64, prev_trailing_zeros |-> 64,
     finished |-> FALSE]
Encoder_new == Encoder_with_buf(BitBuffer_new)
Encoder_with_limit(max_bytes) == Encoder_with_buf(BitBuffer_with_limit(max_bytes))

\* bitmask(n): the lowest n bits set
bitmask(n) == IF n >= 64 THEN U64_MAX ELSE 0..(n - 1)

\* The result of an Encoder call: res is "Ok", "BufferFull" or "Panic".
ERes(res, e) == [res |-> res, enc |-> e]

\* encode_delta_of_delta with the upper end of each range excluded: 64, 256 and
\* 2048 go to the next wider codeword.
encode_delta_of_delta_exclusive(buf, dod) ==
    IF dod = {} THEN write_bit(buf, FALSE)
    ELSE IF I64InRange(dod, -63, 63) THEN
        AndThen(write_bits(buf, {1}, 2), LAMBDA b : write_bits(b, dod \cap (0..6), 7))
    ELSE IF I64InRange(dod, -255, 255) THEN
        AndThen(write_bits(buf, {1, 2}, 3), LAMBDA b : write_bits(b, dod \cap (0..8), 9))
    ELSE IF I64InRange(dod, -2047, 2047) THEN
        AndThen(write_bits(buf, {1, 2, 3}, 4), LAMBDA b : write_bits(b, dod \cap (0..11), 12))
    ELSE
        AndThen(write_bits(buf, {0, 1, 2, 3}, 4), LAMBDA b : write_bits(b, dod, 64))

\* encode_delta_of_delta with every non-zero dod in the 64-bit codeword: a dod
\* of -1 is written as 1111 and 64 ones.
encode_delta_of_delta_all_wide(buf, dod) ==
    IF dod = {} THEN write_bit(buf, FALSE)
    ELSE AndThen(write_bits(buf, {0, 1, 2, 3}, 4), LAMBDA b : write_bits(b, dod, 64))

\* encode_delta_of_delta without the one-bit codeword: a dod of 0 is written as
\* '10' and seven zero bits.
encode_delta_of_delta_no_zero(buf, dod) ==
    IF I64InRange(dod, -63, 64) THEN
        AndThen(write_bits(buf, {1}, 2), LAMBDA b : write_bits(b, dod \cap (0..6), 7))
    ELSE IF I64InRange(dod, -255, 256) THEN
        AndThen(write_bits(buf, {1, 2}, 3), LAMBDA b : write_bits(b, dod \cap (0..8), 9))
    ELSE IF I64InRange(dod, -2047, 2048) THEN
        AndThen(write_bits(buf, {1, 2, 3}, 4), LAMBDA b : write_bits(b, dod \cap (0..11), 12))
    ELSE
        AndThen(write_bits(buf, {0, 1, 2, 3}, 4), LAMBDA b : write_bits(b, dod, 64))

\* Encoder::encode_delta_of_delta, on the buffer
encode_delta_of_delta(buf, dod) ==
    IF dod = {} THEN write_bit(buf, FALSE)
    ELSE IF I64InRange(dod, -63, 64) THEN
        AndThen(write_bits(buf, {1}, 2), LAMBDA b : write_bits(b, dod \cap (0..6), 7))
    ELSE IF I64InRange(dod, -255, 256) THEN
        AndThen(write_bits(buf, {1, 2}, 3), LAMBDA b : write_bits(b, dod \cap (0..8), 9))
    ELSE IF I64InRange(dod, -2047, 2048) THEN
        AndThen(write_bits(buf, {1, 2, 3}, 4), LAMBDA b : write_bits(b, dod \cap (0..11), 12))
    ELSE
        AndThen(write_bits(buf, {0, 1, 2, 3}, 4), LAMBDA b : write_bits(b, dod, 64))

\* Encoder::encode_value: [ok, enc]; on BufferFull only the buffer has changed.
encode_value(e, value) ==
    LET bits == value
        xor == Xor(bits, e.prev_value_bits)
        leading == leading_zeros(xor)
        trailing == trailing_zeros(xor)
        reuse == leading >= e.prev_leading_zeros /\ trailing >= e.prev_trailing_zeros
        reuse_bits == 64 - e.prev_leading_zeros - e.prev_trailing_zeros
        new_bits == 64 - leading - trailing
        window == xor # {} /\ ~reuse
    IN Bind(IF xor = {} THEN write_bit(e.buf, FALSE)
            ELSE AndThen(write_bit(e.buf, TRUE), LAMBDA b1 :
                 IF reuse THEN
                     AndThen(write_bit(b1, FALSE), LAMBDA b2 :
                     write_bits(b2, Shr(xor, e.prev_trailing_zeros) \cap bitmask(reuse_bits),
                                reuse_bits))
                 ELSE
                     AndThen(write_bit(b1, TRUE), LAMBDA b2 :
                     AndThen(write_bits(b2, U64(leading), 6), LAMBDA b3 :
                     AndThen(write_bits(b3, U64(new_bits - 1), 6), LAMBDA b4 :
                     write_bits(b4, Shr(xor, trailing) \cap bitmask(new_bits), new_bits))))),
            LAMBDA w :
            IF ~w.ok THEN [ok |-> FALSE, enc |-> [e EXCEPT !.buf = w.buf]]
            ELSE [ok |-> TRUE,
                  enc |-> [e EXCEPT !.buf = w.buf,
                                    !.prev_leading_zeros = IF window THEN leading ELSE @,
                                    !.prev_trailing_zeros = IF window THEN trailing ELSE @,
                                    !.prev_value_bits = bits]])

\* encode_first assigning prev_timestamp and prev_value_bits before the writes:
\* a failed first encode leaves them changed.
encode_first_assigns_first(e, dp) ==
    Bind(AndThen(write_bits(e.buf, dp.timestamp, 64),
                 LAMBDA b : write_bits(b, dp.value, 64)),
         LAMBDA w :
         ERes(IF w.ok THEN "Ok" ELSE "BufferFull",
              [e EXCEPT !.buf = w.buf, !.prev_timestamp = dp.timestamp,
                        !.prev_value_bits = dp.value]))

\* Encoder::encode_first
encode_first(e, dp) ==
    Bind(AndThen(write_bits(e.buf, dp.timestamp, 64),
                 LAMBDA b : write_bits(b, dp.value, 64)),
         LAMBDA w :
         IF ~w.ok THEN ERes("BufferFull", [e EXCEPT !.buf = w.buf])
         ELSE ERes("Ok", [e EXCEPT !.buf = w.buf, !.prev_timestamp = dp.timestamp,
                                   !.prev_value_bits = dp.value]))

\* The tail shared by encode_second and encode_subsequent: the dod codeword, the
\* value codeword, then prev_delta and prev_timestamp.
encode_codewords(e, dp, delta, dod) ==
    Bind(encode_delta_of_delta(e.buf, dod), LAMBDA w :
    IF ~w.ok THEN ERes("BufferFull", [e EXCEPT !.buf = w.buf])
    ELSE Bind(encode_value([e EXCEPT !.buf = w.buf], dp.value), LAMBDA v :
         IF ~v.ok THEN ERes("BufferFull", v.enc)
         ELSE ERes("Ok", [v.enc EXCEPT !.prev_delta = delta,
                                       !.prev_timestamp = dp.timestamp])))

\* encode_second writing a dod of 0 instead of the first delta.
encode_second_zero_dod(e, dp, checks) ==
    IF checks /\ sub_overflows(dp.timestamp, e.prev_timestamp) THEN ERes("Panic", e)
    ELSE Bind(wrapping_sub(dp.timestamp, e.prev_timestamp), LAMBDA delta :
         encode_codewords(e, dp, delta, {}))

\* Encoder::encode_second. checks: the build aborts on integer overflow.
encode_second(e, dp, checks) ==
    IF checks /\ sub_overflows(dp.timestamp, e.prev_timestamp) THEN ERes("Panic", e)
    ELSE Bind(wrapping_sub(dp.timestamp, e.prev_timestamp), LAMBDA delta :
         encode_codewords(e, dp, delta, delta))

\* Encoder::encode_subsequent
encode_subsequent(e, dp, checks) ==
    Bind(wrapping_sub(dp.timestamp, e.prev_timestamp), LAMBDA delta :
    IF checks /\ (\/ sub_overflows(dp.timestamp, e.prev_timestamp)
                  \/ sub_overflows(delta, e.prev_delta))
    THEN ERes("Panic", e)
    ELSE encode_codewords(e, dp, delta, wrapping_sub(delta, e.prev_delta)))

\* encode with count += 1 moved before the `?`: a failed encode counts too.
encode_count_always(e, dp, checks) ==
    IF e.finished THEN ERes("Panic", e)
    ELSE Bind(IF e.count = 0 THEN encode_first(e, dp)
              ELSE IF e.count = 1 THEN encode_second(e, dp, checks)
              ELSE encode_subsequent(e, dp, checks),
              LAMBDA r :
              IF r.res = "Panic" THEN r
              ELSE ERes(r.res, [r.enc EXCEPT !.count = @ + 1]))

\* encode without the assertion on self.finished: points are written after the
\* end marker.
encode_no_assert(e, dp, checks) ==
    Bind(IF e.count = 0 THEN encode_first(e, dp)
         ELSE IF e.count = 1 THEN encode_second(e, dp, checks)
         ELSE encode_subsequent(e, dp, checks),
         LAMBDA r :
         IF r.res = "Ok" THEN ERes("Ok", [r.enc EXCEPT !.count = @ + 1])
         ELSE r)

\* Encoder::encode: the assertion, the dispatch on count, count += 1 on success.
encode(e, dp, checks) ==
    IF e.finished THEN ERes("Panic", e)
    ELSE Bind(IF e.count = 0 THEN encode_first(e, dp)
              ELSE IF e.count = 1 THEN encode_second(e, dp, checks)
              ELSE encode_subsequent(e, dp, checks),
              LAMBDA r :
              IF r.res = "Ok" THEN ERes("Ok", [r.enc EXCEPT !.count = @ + 1])
              ELSE r)

\* finish without the early return on self.finished: every call writes a marker.
finish_no_guard(e) ==
    Bind(AndThen(write_bits(e.buf, {0, 1, 2, 3}, 4),
                 LAMBDA b : write_bits(b, U64_MAX, 64)),
         LAMBDA w :
         IF ~w.ok THEN ERes("BufferFull", [e EXCEPT !.buf = w.buf])
         ELSE ERes("Ok", [e EXCEPT !.buf = w.buf, !.finished = TRUE]))

\* finish without the 4-bit prefix: the marker is 64 bits long.
finish_no_prefix(e) ==
    IF e.finished THEN ERes("Ok", e)
    ELSE Bind(write_bits(e.buf, U64_MAX, 64), LAMBDA w :
         IF ~w.ok THEN ERes("BufferFull", [e EXCEPT !.buf = w.buf])
         ELSE ERes("Ok", [e EXCEPT !.buf = w.buf, !.finished = TRUE]))

\* finish dropping the written bits when the marker does not fit.
finish_clears(e) ==
    IF e.finished THEN ERes("Ok", e)
    ELSE Bind(AndThen(write_bits(e.buf, {0, 1, 2, 3}, 4),
                      LAMBDA b : write_bits(b, U64_MAX, 64)),
         LAMBDA w :
         IF ~w.ok
         THEN ERes("BufferFull", [e EXCEPT !.buf = [@ EXCEPT !.bytes = <<>>, !.bit_count = 0]])
         ELSE ERes("Ok", [e EXCEPT !.buf = w.buf, !.finished = TRUE]))

\* Encoder::finish
finish(e) ==
    IF e.finished THEN ERes("Ok", e)
    ELSE Bind(AndThen(write_bits(e.buf, {0, 1, 2, 3}, 4),
                      LAMBDA b : write_bits(b, U64_MAX, 64)),
         LAMBDA w :
         IF ~w.ok THEN ERes("BufferFull", [e EXCEPT !.buf = w.buf])
         ELSE ERes("Ok", [e EXCEPT !.buf = w.buf, !.finished = TRUE]))

\* into_compressed counting only the bits of the bytes before the tail byte.
into_compressed_no_tail(e) ==
    [bytes |-> e.buf.bytes,
     total_bits |-> IF e.buf.bytes = <<>> THEN 0 ELSE 8 * (Len(e.buf.bytes) - 1),
     count |-> e.count]

\* Encoder::into_compressed
into_compressed(e) ==
    [bytes |-> e.buf.bytes, total_bits |-> len_bits(e.buf), count |-> e.count]

\* --------------------------------------------------------------- Decoder

\* sign_extend(value, bits): ((value << shift) as i64) >> shift, shift = 64 - bits
sign_extend(value, bits) ==
    LET shift == 64 - bits
        x == Shl(value, shift)
    IN Shr(x, shift) \cup (IF 63 \in x THEN (64 - shift)..63 ELSE {})

\* The result of decode_delta_of_delta: kind is "Value", "EndOfStream" or "Err"
\* (UnexpectedEnd).
DodRes(kind, dod, r) == [kind |-> kind, dod |-> dod, reader |-> r]

\* One prefix-selected payload: read n bits and sign-extend them.
dod_payload(r, n) ==
    Bind(read_bits(r, n), LAMBDA raw :
    IF ~raw.some THEN DodRes("Err", {}, raw.reader)
    ELSE DodRes("Value", sign_extend(raw.value, n), raw.reader))

\* Decoder::decode_delta_of_delta
decode_delta_of_delta(reader) ==
    Bind(read_bit(reader), LAMBDA b1 :
    IF ~b1.some THEN DodRes("Err", {}, b1.reader)
    ELSE IF ~b1.bit THEN DodRes("Value", {}, b1.reader)
    ELSE Bind(read_bit(b1.reader), LAMBDA b2 :
    IF ~b2.some THEN DodRes("Err", {}, b2.reader)
    ELSE IF ~b2.bit THEN dod_payload(b2.reader, 7)
    ELSE Bind(read_bit(b2.reader), LAMBDA b3 :
    IF ~b3.some THEN DodRes("Err", {}, b3.reader)
    ELSE IF ~b3.bit THEN dod_payload(b3.reader, 9)
    ELSE Bind(read_bit(b3.reader), LAMBDA b4 :
    IF ~b4.some THEN DodRes("Err", {}, b4.reader)
    ELSE IF ~b4.bit THEN dod_payload(b4.reader, 12)
    ELSE Bind(read_bits(b4.reader, 64), LAMBDA raw :
    IF ~raw.some THEN DodRes("Err", {}, raw.reader)
    ELSE IF raw.value = U64_MAX THEN DodRes("EndOfStream", {}, raw.reader)
    ELSE DodRes("Value", raw.value, raw.reader))))))

\* The result of decode_value: kind is "Ok", "Err" (UnexpectedEnd) or "Panic".
ValRes(kind, bits, leading, trailing, r) ==
    [kind |-> kind, value_bits |-> bits, leading |-> leading, trailing |-> trailing,
     reader |-> r]

\* The window part of decode_value: meaningful_bits bits are read, shifted left by
\* trailing and XORed into the previous value.  under: the u8 subtraction that
\* produced the operands underflowed.  With overflow checks an underflow or a
\* shift by 64 or more aborts; without them the u8 wraps modulo 256 and the shift
\* amount is taken modulo 64.
decode_window(reader, prev_value_bits, leading, meaningful_bits, trailing, under, checks) ==
    IF checks /\ under THEN ValRes("Panic", {}, 0, 0, reader)
    ELSE Bind(read_bits(reader, meaningful_bits), LAMBDA m :
         IF ~m.some THEN ValRes("Err", {}, 0, 0, m.reader)
         ELSE IF checks /\ trailing >= 64 THEN ValRes("Panic", {}, 0, 0, m.reader)
         ELSE ValRes("Ok", Xor(prev_value_bits, Shl(m.value, trailing % 64)),
                     leading, trailing, m.reader))

\* Decoder::decode_value
decode_value(reader, prev_value_bits, prev_leading_zeros, prev_trailing_zeros, checks) ==
    Bind(read_bit(reader), LAMBDA bit :
    IF ~bit.some THEN ValRes("Err", {}, 0, 0, bit.reader)
    ELSE IF ~bit.bit
    THEN ValRes("Ok", prev_value_bits, prev_leading_zeros, prev_trailing_zeros, bit.reader)
    ELSE Bind(read_bit(bit.reader), LAMBDA control :
    IF ~control.some THEN ValRes("Err", {}, 0, 0, control.reader)
    ELSE IF ~control.bit
    THEN decode_window(control.reader, prev_value_bits, prev_leading_zeros,
                       (64 - prev_leading_zeros - prev_trailing_zeros) % 256,
                       prev_trailing_zeros,
                       prev_leading_zeros + prev_trailing_zeros > 64, checks)
    ELSE Bind(read_bits(control.reader, 6), LAMBDA l :
    IF ~l.some THEN ValRes("Err", {}, 0, 0, l.reader)
    ELSE Bind(read_bits(l.reader, 6), LAMBDA mb :
    IF ~mb.some THEN ValRes("Err", {}, 0, 0, mb.reader)
    ELSE LET leading == LowNat(l.value, 6)
             meaningful_bits == LowNat(mb.value, 6) + 1
         IN decode_window(mb.reader, prev_value_bits, leading, meaningful_bits,
                          (64 - leading - meaningful_bits) % 256,
                          leading + meaningful_bits > 64, checks)))))

\* The branch decode_value takes on the next value codeword: "same" for 0,
\* "reuse" for 10, "new" for 11, "cut" if the control bits are missing.
value_form(reader) ==
    Bind(read_bit(reader), LAMBDA bit :
    IF ~bit.some THEN "cut"
    ELSE IF ~bit.bit THEN "same"
    ELSE Bind(read_bit(bit.reader), LAMBDA control :
    IF ~control.some THEN "cut"
    ELSE IF control.bit THEN "new" ELSE "reuse"))

\* The result of a decode: kind is "Ok", "Empty", "UnexpectedEnd" or "Panic".
DecRes(kind, points) == [kind |-> kind, points |-> points]

\* The loop of decode_from_reader, entered with the points decoded so far.
RECURSIVE decode_loop(_, _, _, _, _, _, _, _)
decode_loop(reader, points, prev_timestamp, prev_delta, prev_value_bits, prev_leading_zeros, prev_trailing_zeros, checks) ==
    Bind(decode_delta_of_delta(reader), LAMBDA d :
    IF d.kind = "Err" THEN DecRes("UnexpectedEnd", <<>>)
    ELSE IF d.kind = "EndOfStream" THEN DecRes("Ok", points)
    ELSE IF checks /\ Len(points) # 1 /\ add_overflows(prev_delta, d.dod)
    THEN DecRes("Panic", <<>>)
    ELSE Bind(IF Len(points) = 1 THEN d.dod ELSE wrapping_add(prev_delta, d.dod),
              LAMBDA delta :
    IF checks /\ add_overflows(prev_timestamp, delta) THEN DecRes("Panic", <<>>)
    ELSE Bind(wrapping_add(prev_timestamp, delta), LAMBDA ts :
    Bind(decode_value(d.reader, prev_value_bits, prev_leading_zeros,
                      prev_trailing_zeros, checks), LAMBDA v :
    IF v.kind = "Err" THEN DecRes("UnexpectedEnd", <<>>)
    ELSE IF v.kind = "Panic" THEN DecRes("Panic", <<>>)
    ELSE decode_loop(v.reader, Append(points, DataPoint_new(ts, v.value_bits)),
                     ts, delta, v.value_bits, v.leading, v.trailing, checks)))))

\* decode_from_reader reporting Empty for the missing first value too.
decode_from_reader_empty_value(reader, checks) ==
    Bind(read_bits(reader, 64), LAMBDA ts :
    IF ~ts.some THEN DecRes("Empty", <<>>)
    ELSE Bind(read_bits(ts.reader, 64), LAMBDA val_bits :
    IF ~val_bits.some THEN DecRes("Empty", <<>>)
    ELSE decode_loop(val_bits.reader, <<DataPoint_new(ts.value, val_bits.value)>>,
                     ts.value, {}, val_bits.value, 0, 0, checks)))

\* Decoder::decode_from_reader
decode_from_reader(reader, checks) ==
    Bind(read_bits(reader, 64), LAMBDA ts :
    IF ~ts.some THEN DecRes("Empty", <<>>)
    ELSE Bind(read_bits(ts.reader, 64), LAMBDA val_bits :
    IF ~val_bits.some THEN DecRes("UnexpectedEnd", <<>>)
    ELSE decode_loop(val_bits.reader, <<DataPoint_new(ts.value, val_bits.value)>>,
                     ts.value, {}, val_bits.value, 0, 0, checks)))

\* Decoder::decode and Decoder::decode_raw
decode_raw(bytes, total_bits, checks) ==
    decode_from_reader(BitReader_from_raw(bytes, total_bits), checks)
decode(block, checks) == decode_raw(block.bytes, block.total_bits, checks)

\* ----------------------------------------------------------- DecoderIter

\* Decoder::iter
Decoder_iter(block) ==
    [reader |-> BitReader_from_raw(block.bytes, block.total_bits),
     state |-> "Initial", prev_timestamp |-> {}, prev_delta |-> {},
     prev_value_bits |-> {}, prev_leading_zeros |-> 0, prev_trailing_zeros |-> 0,
     done |-> FALSE]

\* The result of next: item is "None", "Point" (Some(Ok(point))), "UnexpectedEnd"
\* or "Empty" (Some(Err(..))), or "Panic"; it is the iterator afterwards.
NextRes(item, point, it) == [item |-> item, point |-> point, it |-> it]

NoPoint == DataPoint_new({}, {})

\* next_initial yielding Err(Empty) when the first timestamp is missing.
next_initial_reports_empty(it) ==
    Bind(read_bits(it.reader, 64), LAMBDA ts :
    IF ~ts.some
    THEN NextRes("Empty", NoPoint, [it EXCEPT !.reader = ts.reader, !.done = TRUE])
    ELSE Bind(read_bits(ts.reader, 64), LAMBDA val_bits :
    IF ~val_bits.some
    THEN NextRes("UnexpectedEnd", NoPoint,
                 [it EXCEPT !.reader = val_bits.reader, !.done = TRUE])
    ELSE NextRes("Point", DataPoint_new(ts.value, val_bits.value),
                 [it EXCEPT !.reader = val_bits.reader, !.prev_timestamp = ts.value,
                            !.prev_value_bits = val_bits.value,
                            !.state = "SecondPoint"])))

\* next_initial without the phase change: the iterator stays in Initial after
\* the first point.
next_initial_keeps_phase(it) ==
    Bind(read_bits(it.reader, 64), LAMBDA ts :
    IF ~ts.some
    THEN NextRes("None", NoPoint, [it EXCEPT !.reader = ts.reader, !.done = TRUE])
    ELSE Bind(read_bits(ts.reader, 64), LAMBDA val_bits :
    IF ~val_bits.some
    THEN NextRes("UnexpectedEnd", NoPoint,
                 [it EXCEPT !.reader = val_bits.reader, !.done = TRUE])
    ELSE NextRes("Point", DataPoint_new(ts.value, val_bits.value),
                 [it EXCEPT !.reader = val_bits.reader, !.prev_timestamp = ts.value,
                            !.prev_value_bits = val_bits.value])))

\* DecoderIter::next, the arm IterState::Initial
next_initial(it) ==
    Bind(read_bits(it.reader, 64), LAMBDA ts :
    IF ~ts.some
    THEN NextRes("None", NoPoint, [it EXCEPT !.reader = ts.reader, !.done = TRUE])
    ELSE Bind(read_bits(ts.reader, 64), LAMBDA val_bits :
    IF ~val_bits.some
    THEN NextRes("UnexpectedEnd", NoPoint,
                 [it EXCEPT !.reader = val_bits.reader, !.done = TRUE])
    ELSE NextRes("Point", DataPoint_new(ts.value, val_bits.value),
                 [it EXCEPT !.reader = val_bits.reader, !.prev_timestamp = ts.value,
                            !.prev_value_bits = val_bits.value,
                            !.state = "SecondPoint"])))

\* DecoderIter::next, the arm IterState::SecondPoint | IterState::Subsequent
next_following(it, checks) ==
    Bind(decode_delta_of_delta(it.reader), LAMBDA d :
    IF d.kind = "EndOfStream"
    THEN NextRes("None", NoPoint, [it EXCEPT !.reader = d.reader, !.done = TRUE])
    ELSE IF d.kind = "Err"
    THEN NextRes("UnexpectedEnd", NoPoint, [it EXCEPT !.reader = d.reader, !.done = TRUE])
    ELSE IF checks /\ it.state # "SecondPoint" /\ add_overflows(it.prev_delta, d.dod)
    THEN NextRes("Panic", NoPoint, it)
    ELSE Bind(IF it.state = "SecondPoint" THEN d.dod
              ELSE wrapping_add(it.prev_delta, d.dod), LAMBDA delta :
    IF checks /\ add_overflows(it.prev_timestamp, delta)
    THEN NextRes("Panic", NoPoint, it)
    ELSE Bind(wrapping_add(it.prev_timestamp, delta), LAMBDA ts :
    Bind(decode_value(d.reader, it.prev_value_bits, it.prev_leading_zeros,
                      it.prev_trailing_zeros, checks), LAMBDA v :
    Bind([it EXCEPT !.reader = v.reader, !.prev_delta = delta,
                    !.state = "Subsequent", !.prev_timestamp = ts], LAMBDA it1 :
    IF v.kind = "Panic" THEN NextRes("Panic", NoPoint, it)
    ELSE IF v.kind = "Err"
    THEN NextRes("UnexpectedEnd", NoPoint, [it1 EXCEPT !.done = TRUE])
    ELSE NextRes("Point", DataPoint_new(ts, v.value_bits),
                 [it1 EXCEPT !.prev_value_bits = v.value_bits,
                             !.prev_leading_zeros = v.leading,
                             !.prev_trailing_zeros = v.trailing]))))))

\* next without the test of self.done.
next_ignores_done(it, checks) ==
    IF it.state = "Initial" THEN next_initial(it)
    ELSE next_following(it, checks)

\* next without the phase change: every dod codeword is taken as the first delta.
next_always_second(it, checks) ==
    IF it.done THEN NextRes("None", NoPoint, it)
    ELSE IF it.state = "Initial" THEN next_initial(it)
    ELSE next_following([it EXCEPT !.state = "SecondPoint"], checks)

\* DecoderIter::next
next(it, checks) ==
    IF it.done THEN NextRes("None", NoPoint, it)
    ELSE IF it.state = "Initial" THEN next_initial(it)
    ELSE next_following(it, checks)

\* ------------------------------------------------------------ the inputs

\* f64::to_bits() of the values used as inputs
F64_1_0 == 52..61                    \* 1.0  = 0x3FF0_0000_0000_0000
F64_2_0 == {62}                      \* 2.0  = 0x4000_0000_0000_0000
F64_NEG_TINY == {0, 63}              \* -5e-324 = 0x8000_0000_0000_0001

\* The data points a caller passes to encode.  (0, 1.0) repeated is a dod of 0
\* with XOR 0; after it (64, 2.0) is the upper end of the 7-bit range with a new
\* window and (120, 1.0) a 9-bit delta, or after both a negative dod and a window
\* reuse; the last has a timestamp above 2^63 and an XOR that spans all 64 bits.
Points ==
    { DataPoint_new(U64(0), F64_1_0),
      DataPoint_new(U64(64), F64_2_0),
      DataPoint_new(U64(120), F64_1_0),
      DataPoint_new({7, 63}, F64_NEG_TINY) }

\* The byte limits a caller passes to Encoder::with_limit; NoLimit is Encoder::new.
Limits == {NoLimit, 0, 8, 9, 15, 16, 17, 25, 26}

\* The numbers of bits a caller drops from the end of a block before decoding it
\* (CompressedBlock's fields are public; decode_raw takes any total_bits).
Cuts == {1, 70}

\* The input of the constant-series example: [(1000, 1.0), (1060, 1.0), (1120, 1.0)].
ConstantSeries ==
    << DataPoint_new(U64(1000), F64_1_0),
       DataPoint_new(U64(1060), F64_1_0),
       DataPoint_new(U64(1120), F64_1_0) >>

\* A series that crosses the sign boundary of i64 in both directions:
\* i64::MAX as u64 (2^63 - 1), then 2^63, then back.  The unsigned steps are +1
\* and -1; the signed differences i64::MIN - i64::MAX and back do not fit an i64.
WrapSeries ==
    << DataPoint_new(U64_MAX \ {63}, F64_1_0),
       DataPoint_new({63}, F64_1_0),
       DataPoint_new(U64_MAX \ {63}, F64_2_0) >>

\* A series whose second and third points both have a dod of -1 (the first
\* delta is -1, the second -2): the 64-bit pattern of -1 is the marker's payload.
MinusOneSeries ==
    << DataPoint_new(U64(10), F64_1_0),
       DataPoint_new(U64(9), F64_1_0),
       DataPoint_new(U64(7), F64_2_0) >>

\* A series that repeats i64::MAX as u64 and then steps to 2^63: the second
\* point costs two bits, the third needs i64::MIN - i64::MAX.
RepeatWrapSeries ==
    << DataPoint_new(U64_MAX \ {63}, F64_1_0),
       DataPoint_new(U64_MAX \ {63}, F64_1_0),
       DataPoint_new({63}, F64_1_0) >>

\* The input of the compression-ratio test: 10,000 points of value 42.0, one
\* every 60 seconds from 1,000,000.
F64_42_0 == {48, 50, 54, 62}         \* 42.0 = 0x4045_0000_0000_0000
RunPoints == 10000
RunPoint(i) == DataPoint_new(U64(1000000 + i * 60), F64_42_0)

\* Bytes from outside, with total_bits <= 8 * len: sixteen zero bytes (the point
\* (0, 0.0)) followed by a zero byte, cut or not (codewords '0' '0'); followed
\* by '0' '11' 111111 111111, a new window of leading 63 and length 64, without
\* and with the 64 bits of the field and one more bit; and inputs of fewer than
\* 64 bits, of whole bytes or not.
Zeros(n) == [i \in 1..n |-> 0]
RawBlocks ==
    { [bytes |-> Zeros(17), total_bits |-> 136],
      [bytes |-> Zeros(17), total_bits |-> 135],
      [bytes |-> Zeros(16) \o <<127, 254>>, total_bits |-> 143],
      [bytes |-> Zeros(16) \o <<127, 254>> \o Zeros(8), total_bits |-> 208],
      [bytes |-> <<165, 224>>, total_bits |-> 16],
      [bytes |-> <<165, 224>>, total_bits |-> 11],
      [bytes |-> <<165, 224>>, total_bits |-> 8],
      [bytes |-> <<>>, total_bits |-> 0] }

\* The series a caller feeds in order, and their points.
FixedSeries == {ConstantSeries, WrapSeries, MinusOneSeries, RepeatWrapSeries}
SeriesPoints == UNION {{s[i] : i \in 1..Len(s)} : s \in FixedSeries}

\* The inputs of the direct BitBuffer calls: the values and widths passed to
\* write_bits (0x5A has bits above a 5-bit field), the limits passed to
\* with_limit and to set_limit.
Values == { {1, 3, 4, 6}, U64_MAX }
Widths == {0, 5, 64}
BufLimits == {1, 9}
NewLimits == {NoLimit, 1}

\* The delta-of-delta values passed to encode_delta_of_delta: 0, both ends of
\* each tabulated range and their neighbours, -1, and values of the 64-bit
\* bucket (i64::MIN, i64::MAX, -2^32).
Dods ==
    {I64(n) : n \in {0, 1, -1, 63, 64, 65, -63, -64, 255, 256, 257, -255, -256,
                     2047, 2048, 2049, -2047, -2048}}
    \cup { {63}, 0..62, 32..63 }

\* The bits already in the buffer when the codeword is written: none, or three.
Offsets == {0, 3}

\* The inputs of the direct BitReader calls: the bytes and total_bits passed to
\* from_raw (the same 11 leading bits 10100101 111 with the rest of the second
\* byte clear or set, and with a further byte), and the widths passed to
\* read_bits.
RawBytes == { <<165, 224>>, <<165, 255>>, <<165, 224, 255>> }
RawTotals == {0, 8, 11, 16}
ReadWidths == {0, 3, 9}

\* Successful encode calls per run.
MaxPoints == 3
\* Direct BitBuffer calls (write_bit, write_bits, set_limit) per run.
MaxWrites == 3
\* Direct BitReader calls (read_bit, read_bits, peek_bit) per run.
MaxReads == 3
\* Calls of next that return None per iterator.
MaxNone == 2

\* ------------------------------------------------------- the state machine

VARIABLES
    overflow_checks, \* the build aborts on integer overflow (debug) or wraps (release)
    pc,              \* "encoding", "block", "decoded", "iterating", "panicked";
                     \* "buffer" in a run that drives a BitBuffer directly,
                     \* "reading" a BitReader, "codeword" one dod codeword,
                     \* "series" the long constant series, "raw" bytes from outside
    enc,             \* the Encoder
    input,           \* the points of the encode calls that returned Ok, in order
    last,            \* the last call: [op, res, before], before = len_bits before it
    full,            \* some encode or finish call has returned BufferFull
    block,           \* the CompressedBlock taken from the encoder
    truncated,       \* the caller shortened block.total_bits
    decoded,         \* the result of Decoder::decode(block)
    it,              \* the DecoderIter over block
    yielded,         \* the results of the next calls so far, in order
    series,          \* the points the caller feeds in order; <<>>: any of Points
    buf,             \* the BitBuffer driven directly
    wr,              \* the last direct call: [op, ok, value, n, before]
    rd,              \* the result of read_bits on a fresh BitReader over buf
    writes,          \* the number of direct calls so far
    reader,          \* the BitReader driven directly
    got,             \* the last direct BitReader call: [op, n, before, some, value, bit]
    reads,           \* the number of direct BitReader calls so far
    dec,             \* the result of decode_delta_of_delta on the codeword in buf
    run,             \* the long constant series: [res, enc], the last result and the Encoder
    raw              \* bytes and total_bits from outside: [bytes, total_bits, buf, decoded,
                     \* it, yielded], the results of from_raw, decode_raw, iter and next

vars == <<overflow_checks, pc, enc, input, last, full, block, truncated,
          decoded, it, yielded, series, buf, wr, rd, writes, reader, got, reads, dec,
          run, raw>>

\* The variables of the encoder/decoder run and of the direct BitBuffer run.
codec == <<overflow_checks, pc, enc, input, last, full, block, truncated,
           decoded, it, yielded, series>>
bitio == <<buf, wr, rd, writes>>
readio == <<reader, got, reads>>
NotRead == DodRes("None", {}, BitReader_from_raw(<<>>, 0))

NoBlock == [bytes |-> <<>>, total_bits |-> 0, count |-> 0]

\* The run on bytes from outside before any call: nothing built, nothing
\* decoded, a fresh iterator over a block made of the bytes.
RawRun(bytes, total_bits) ==
    [bytes |-> bytes, total_bits |-> total_bits,
     buf |-> [res |-> "None", buf |-> BitBuffer_new],
     decoded |-> DecRes("None", <<>>),
     it |-> Decoder_iter([bytes |-> bytes, total_bits |-> total_bits, count |-> 0]),
     yielded |-> <<>>]
NotDecoded == DecRes("None", <<>>)
Call(op, res, before) == [op |-> op, res |-> res, before |-> before]
BufCall(op, ok, value, n, before) ==
    [op |-> op, ok |-> ok, value |-> value, n |-> n, before |-> before]
NoRead == [done |-> FALSE, n |-> 0, some |-> FALSE, value |-> {}]
ReadCall(op, n, before, r) ==
    [op |-> op, n |-> n, before |-> before, some |-> r.some, value |-> r.value,
     bit |-> r.bit]

\* The points the caller may pass to the next encode call: any point, or the
\* points of a series in order and, once a call has returned BufferFull, any
\* point of the series.
Offered ==
    IF series = <<>> THEN Points
    ELSE IF full THEN {series[i] : i \in 1..Len(series)}
    ELSE IF Len(input) < Len(series) THEN {series[Len(input) + 1]}
    ELSE {}

Init ==
    /\ \/ /\ pc = "encoding"
          /\ overflow_checks \in BOOLEAN
          /\ \E m \in Limits :
                enc = IF m = NoLimit THEN Encoder_new ELSE Encoder_with_limit(m)
          /\ series \in {<<>>} \cup FixedSeries
          /\ buf = BitBuffer_new
          /\ reader = BitReader_from_raw(<<>>, 0)
          /\ raw = RawRun(<<>>, 0)
       \/ /\ pc = "buffer"
          /\ overflow_checks = FALSE
          /\ enc = Encoder_new
          /\ series = <<>>
          /\ buf \in {BitBuffer_new, BitBuffer_with_capacity(16)}
                     \cup {BitBuffer_with_limit(m) : m \in BufLimits}
          /\ reader = BitReader_from_raw(<<>>, 0)
          /\ raw = RawRun(<<>>, 0)
       \/ /\ pc = "reading"
          /\ overflow_checks = FALSE
          /\ enc = Encoder_new
          /\ series = <<>>
          /\ buf = BitBuffer_new
          /\ \E bytes \in RawBytes, total_bits \in RawTotals :
                /\ total_bits <= 8 * Len(bytes)
                /\ reader = BitReader_from_raw(bytes, total_bits)
          /\ raw = RawRun(<<>>, 0)
       \/ /\ pc = "codeword"
          /\ overflow_checks = FALSE
          /\ enc = Encoder_new
          /\ series = <<>>
          /\ \E n \in Offsets : buf = write_bits(BitBuffer_new, {0, 2}, n).buf
          /\ reader = BitReader_from_raw(<<>>, 0)
          /\ raw = RawRun(<<>>, 0)
       \/ /\ pc = "series"
          /\ overflow_checks = TRUE
          /\ enc = Encoder_new
          /\ series = <<>>
          /\ buf = BitBuffer_new
          /\ reader = BitReader_from_raw(<<>>, 0)
          /\ raw = RawRun(<<>>, 0)
       \/ /\ pc = "raw"
          /\ overflow_checks \in BOOLEAN
          /\ enc = Encoder_new
          /\ series = <<>>
          /\ buf = BitBuffer_new
          /\ reader = BitReader_from_raw(<<>>, 0)
          /\ \E b \in RawBlocks : raw = RawRun(b.bytes, b.total_bits)
    /\ run = ERes("Ok", Encoder_new)
    /\ got = ReadCall("from_raw", 0, 0, RNone(reader))
    /\ dec = NotRead
    /\ reads = 0
    /\ wr = BufCall("new", TRUE, {}, 0, buf)
    /\ rd = NoRead
    /\ writes = 0
    /\ input = <<>>
    /\ last = Call("new", "Ok", 0)
    /\ full = FALSE
    /\ block = NoBlock
    /\ truncated = FALSE
    /\ decoded = NotDecoded
    /\ it = Decoder_iter(NoBlock)
    /\ yielded = <<>>

\* enc.encode(dp)
Encode(dp) ==
    /\ pc = "encoding"
    /\ Len(input) < MaxPoints
    /\ dp \in Offered
    /\ Bind(encode(enc, dp, overflow_checks), LAMBDA r :
          /\ enc' = r.enc
          /\ last' = Call("encode", r.res, len_bits(enc.buf))
          /\ input' = IF r.res = "Ok" THEN Append(input, dp) ELSE input
          /\ full' = (full \/ r.res = "BufferFull")
          /\ pc' = IF r.res = "Panic" THEN "panicked" ELSE pc)
    /\ UNCHANGED <<series, bitio, readio, dec, run, raw>>
    /\ UNCHANGED <<overflow_checks, block, truncated, decoded, it, yielded>>

\* enc.finish()
Finish ==
    /\ pc = "encoding"
    /\ Bind(finish(enc), LAMBDA r :
          /\ enc' = r.enc
          /\ last' = Call("finish", r.res, len_bits(enc.buf))
          /\ full' = (full \/ r.res = "BufferFull"))
    /\ UNCHANGED <<series, bitio, readio, dec, run, raw>>
    /\ UNCHANGED <<overflow_checks, pc, input, block, truncated, decoded, it, yielded>>

\* enc.into_compressed(): the encoder is consumed
IntoCompressed ==
    /\ pc = "encoding"
    /\ block' = into_compressed(enc)
    /\ last' = Call("into_compressed", "Ok", len_bits(enc.buf))
    /\ pc' = "block"
    /\ UNCHANGED <<series, bitio, readio, dec, run, raw>>
    /\ UNCHANGED <<overflow_checks, enc, input, full, truncated, decoded, it,
                   yielded>>

\* The caller drops the last cut bits of the block.
Truncate(cut) ==
    /\ pc = "block"
    /\ ~truncated
    /\ block.total_bits >= cut
    /\ block' = [block EXCEPT !.total_bits = @ - cut]
    /\ truncated' = TRUE
    /\ UNCHANGED <<series, bitio, readio, dec, run, raw>>
    /\ UNCHANGED <<overflow_checks, pc, enc, input, last, full, decoded, it,
                   yielded>>

\* Decoder::decode(&block)
Decode ==
    /\ pc = "block"
    /\ decoded' = decode(block, overflow_checks)
    /\ pc' = "decoded"
    /\ UNCHANGED <<series, bitio, readio, dec, run, raw>>
    /\ UNCHANGED <<overflow_checks, enc, input, last, full, block, truncated,
                   it, yielded>>

\* Decoder::iter(&block)
Iter ==
    /\ pc = "decoded"
    /\ it' = Decoder_iter(block)
    /\ pc' = "iterating"
    /\ UNCHANGED <<series, bitio, readio, dec, run, raw>>
    /\ UNCHANGED <<overflow_checks, enc, input, last, full, block, truncated,
                   decoded, yielded>>

Nones(items) == Cardinality({i \in 1..Len(items) : items[i].item = "None"})

\* it.next()
IterNext ==
    /\ pc = "iterating"
    /\ Nones(yielded) < MaxNone
    /\ Bind(next(it, overflow_checks), LAMBDA r :
          /\ it' = r.it
          /\ yielded' = Append(yielded, [item |-> r.item, point |-> r.point])
          /\ pc' = IF r.item = "Panic" THEN "panicked" ELSE pc)
    /\ UNCHANGED <<series, bitio, readio, dec, run, raw>>
    /\ UNCHANGED <<overflow_checks, enc, input, last, full, block, truncated,
                   decoded>>

\* buf.write_bit(bit)
WriteBit(bit) ==
    /\ pc = "buffer"
    /\ writes < MaxWrites
    /\ Bind(write_bit(buf, bit), LAMBDA r :
          /\ buf' = r.buf
          /\ wr' = BufCall("write_bit", r.ok, IF bit THEN {0} ELSE {}, 1, buf))
    /\ rd' = NoRead
    /\ writes' = writes + 1
    /\ UNCHANGED <<codec, readio, dec, run, raw>>

\* buf.write_bits(value, n)
WriteBits(value, n) ==
    /\ pc = "buffer"
    /\ writes < MaxWrites
    /\ Bind(write_bits(buf, value, n), LAMBDA r :
          /\ buf' = r.buf
          /\ wr' = BufCall("write_bits", r.ok, value, n, buf))
    /\ rd' = NoRead
    /\ writes' = writes + 1
    /\ UNCHANGED <<codec, readio, dec, run, raw>>

\* buf.set_limit(max_bytes)
SetLimit(max_bytes) ==
    /\ pc = "buffer"
    /\ writes < MaxWrites
    /\ buf' = set_limit(buf, max_bytes)
    /\ wr' = BufCall("set_limit", TRUE, {}, 0, buf)
    /\ rd' = NoRead
    /\ writes' = writes + 1
    /\ UNCHANGED <<codec, readio, dec, run, raw>>

\* BitReader::new(&buf).read_bits(n), n the width of the last write
ReadBack ==
    /\ pc = "buffer"
    /\ ~rd.done
    /\ wr.op \in {"write_bit", "write_bits"}
    /\ Bind(read_bits(BitReader_new(buf), wr.n), LAMBDA r :
          rd' = [done |-> TRUE, n |-> wr.n, some |-> r.some, value |-> r.value])
    /\ UNCHANGED <<codec, buf, wr, writes, readio, dec, run, raw>>

\* reader.read_bit()
ReadBit ==
    /\ pc = "reading"
    /\ reads < MaxReads
    /\ Bind(read_bit(reader), LAMBDA r :
          /\ reader' = r.reader
          /\ got' = ReadCall("read_bit", 1, reader.pos, r))
    /\ reads' = reads + 1
    /\ UNCHANGED <<codec, bitio, dec, run, raw>>

\* reader.read_bits(n)
ReadBits(n) ==
    /\ pc = "reading"
    /\ reads < MaxReads
    /\ Bind(read_bits(reader, n), LAMBDA r :
          /\ reader' = r.reader
          /\ got' = ReadCall("read_bits", n, reader.pos, r))
    /\ reads' = reads + 1
    /\ UNCHANGED <<codec, bitio, dec, run, raw>>

\* reader.peek_bit()
PeekBit ==
    /\ pc = "reading"
    /\ reads < MaxReads
    /\ got' = ReadCall("peek_bit", 1, reader.pos, peek_bit(reader))
    /\ reads' = reads + 1
    /\ UNCHANGED <<codec, bitio, reader, dec, run, raw>>

\* encode_delta_of_delta(dod) on the buffer
EncodeDod(dod) ==
    /\ pc = "codeword"
    /\ wr.op = "new"
    /\ Bind(encode_delta_of_delta(buf, dod), LAMBDA r :
          /\ buf' = r.buf
          /\ wr' = BufCall("encode_delta_of_delta", r.ok, dod, 0, buf))
    /\ UNCHANGED <<codec, rd, writes, readio, dec, run, raw>>

\* decode_delta_of_delta on a reader that has read the bits before the codeword
DecodeDod ==
    /\ pc = "codeword"
    /\ wr.op = "encode_delta_of_delta"
    /\ dec = NotRead
    /\ dec' = decode_delta_of_delta(read_bits(BitReader_new(buf), len_bits(wr.before)).reader)
    /\ UNCHANGED <<codec, bitio, readio, run, raw>>

\* enc.encode(*dp) for the next point of the long constant series
RunEncode ==
    /\ pc = "series"
    /\ run.res = "Ok" /\ ~run.enc.finished
    /\ run.enc.count < RunPoints
    /\ run' = encode(run.enc, RunPoint(run.enc.count), overflow_checks)
    /\ UNCHANGED <<codec, bitio, readio, dec, raw>>

\* enc.finish() after the last point of the long constant series
RunFinish ==
    /\ pc = "series"
    /\ run.res = "Ok" /\ ~run.enc.finished
    /\ run.enc.count = RunPoints
    /\ run' = finish(run.enc)
    /\ UNCHANGED <<codec, bitio, readio, dec, raw>>

\* BitBuffer::from_raw(bytes, total_bits)
FromRaw ==
    /\ pc = "raw"
    /\ raw.buf.res = "None"
    /\ raw' = [raw EXCEPT !.buf = BitBuffer_from_raw(raw.bytes, raw.total_bits,
                                                     overflow_checks)]
    /\ UNCHANGED <<codec, bitio, readio, dec, run>>

\* Decoder::decode_raw(&bytes, total_bits)
DecodeRaw ==
    /\ pc = "raw"
    /\ raw.decoded = NotDecoded
    /\ raw' = [raw EXCEPT !.decoded = decode_raw(raw.bytes, raw.total_bits,
                                                 overflow_checks)]
    /\ UNCHANGED <<codec, bitio, readio, dec, run>>

\* next() on Decoder::iter(&CompressedBlock { bytes, total_bits, count })
RawNext ==
    /\ pc = "raw"
    /\ Nones(raw.yielded) < MaxNone
    /\ \A i \in 1..Len(raw.yielded) : raw.yielded[i].item # "Panic"
    /\ Bind(next(raw.it, overflow_checks), LAMBDA r :
          raw' = [raw EXCEPT !.it = r.it,
                             !.yielded = Append(@, [item |-> r.item, point |-> r.point])])
    /\ UNCHANGED <<codec, bitio, readio, dec, run>>

Next ==
    \/ \E dp \in Points \cup SeriesPoints : Encode(dp)
    \/ Finish
    \/ IntoCompressed
    \/ \E cut \in Cuts : Truncate(cut)
    \/ Decode
    \/ Iter
    \/ IterNext
    \/ \E bit \in BOOLEAN : WriteBit(bit)
    \/ \E value \in Values, n \in Widths : WriteBits(value, n)
    \/ \E max_bytes \in NewLimits : SetLimit(max_bytes)
    \/ ReadBack
    \/ ReadBit
    \/ \E n \in ReadWidths : ReadBits(n)
    \/ PeekBit
    \/ \E dod \in Dods : EncodeDod(dod)
    \/ DecodeDod
    \/ RunEncode
    \/ RunFinish
    \/ FromRaw
    \/ DecodeRaw
    \/ RawNext

Spec == Init /\ [][Next]_vars

\* ------------------------------------------------------------- the claims

Unlimited == enc.buf.max_bytes = NoLimit
Limited == enc.buf.max_bytes # NoLimit
Decoded == decoded.kind # "None"

\* a <= b on u64
U64Le(a, b) == a = b \/ SetMax(Xor(a, b)) \in b

NonDecreasing(s) == \A i \in 1..(Len(s) - 1) : U64Le(s[i].timestamp, s[i + 1].timestamp)

\* The outcome of collecting the iterator into a Result<Vec<_>, _> until it
\* returns None: the first Err if there is one, the points otherwise; "Panic" if
\* a call aborted.
Stops == {i \in 1..Len(yielded) : yielded[i].item \in {"None", "Panic"}}
Drained == Stops # {}
IterOutcome ==
    LET k == SetMin(Stops)
        errs == {i \in 1..(k - 1) : yielded[i].item \in {"UnexpectedEnd", "Empty"}}
        pts == {i \in 1..(k - 1) : yielded[i].item = "Point"}
    IN IF yielded[k].item = "Panic" THEN DecRes("Panic", <<>>)
       ELSE IF errs # {} THEN DecRes(yielded[SetMin(errs)].item, <<>>)
       ELSE DecRes("Ok", [i \in 1..Cardinality(pts) |-> yielded[i].point])

\* C1: round trip.  Every non-empty sequence of points with non-decreasing
\* timestamps that an unlimited Encoder encoded and finished decodes to Ok with
\* exactly those points.
C1_RoundTrip ==
    (Decoded /\ Unlimited /\ enc.finished /\ ~truncated /\ input # <<>>
        /\ NonDecreasing(input))
    => decoded = DecRes("Ok", input)

\* C2: value round trip.  For every sequence of points that an unlimited Encoder
\* encoded and finished, the i-th decoded value is the i-th encoded value, bit
\* for bit, whatever the timestamps are.
C2_ValueRoundTrip ==
    (Decoded /\ Unlimited /\ enc.finished /\ ~truncated)
    => \A i \in 1..Len(input) :
          /\ decoded.kind = "Ok"
          /\ i <= Len(decoded.points)
          /\ decoded.points[i].value = input[i].value

\* C2 in a build without overflow checks: the values always round-trip there.
C2_ValueRoundTripWrapping ==
    (Decoded /\ Unlimited /\ enc.finished /\ ~truncated /\ ~overflow_checks)
    => /\ decoded.kind = "Ok" \/ input = <<>>
       /\ \A i \in 1..Len(input) :
             i <= Len(decoded.points) /\ decoded.points[i].value = input[i].value

C4_EmptyStream ==
    (Decoded /\ ~truncated /\ enc.finished /\ enc.count = 0 /\ block.total_bits = 68)
    => decoded.kind = "Empty" \/ decoded = DecRes("Ok", <<>>)

\* C5: a limited Encoder never holds more than max_bytes bytes, whatever calls
\* were made and whatever they returned, and neither does the block taken from it.
C5_LimitRespected ==
    Limited => /\ Len(enc.buf.bytes) <= enc.buf.max_bytes
               /\ (last.op = "into_compressed" => Len(block.bytes) <= enc.buf.max_bytes)

\* C5 witness: a limited encoder returned BufferFull after a successful encode and
\* its block, exactly max_bytes long, was taken.
C5_Witness ==
    /\ Limited /\ full /\ enc.count >= 1
    /\ last.op = "into_compressed"
    /\ Len(block.bytes) = enc.buf.max_bytes

\* C6: count is the number of encode calls that returned Ok; a failed encode and
\* finish leave it alone, and the block carries the same number.
C6_CountIsOkEncodes ==
    /\ enc.count = Len(input)
    /\ (last.op = "into_compressed" => block.count = Len(input))

\* C6 witness: after two successful encodes an encode returned BufferFull.
C6_Witness ==
    /\ last.op = "encode" /\ last.res = "BufferFull"
    /\ enc.count = 2

\* C7: after a finish that returned Ok, a further finish returns Ok and changes
\* nothing of the encoder: bytes, bit length and count stay, no second marker.
C7_FinishIdempotent ==
    [][(pc = "encoding" /\ enc.finished /\ last'.op = "finish")
        => (last'.res = "Ok" /\ enc' = enc)]_vars

\* C7 witness: finish was called on a finished encoder holding points (the call
\* found the bit length it left).
C7_Witness ==
    /\ last.op = "finish" /\ last.res = "Ok"
    /\ enc.finished /\ enc.count >= 1
    /\ last.before = len_bits(enc.buf)

\* C8: a block from an Encoder with at least one successful encode and no
\* successful finish decodes to Err(UnexpectedEnd), never to Ok.
C8_UnterminatedRejected ==
    (Decoded /\ ~truncated /\ enc.count >= 1 /\ ~enc.finished)
    => decoded.kind = "UnexpectedEnd"

\* C8, the part that holds in every build: such a block never decodes to Ok.
C8_UnterminatedNeverOk ==
    (Decoded /\ ~truncated /\ enc.count >= 1 /\ ~enc.finished)
    => decoded.kind \in {"UnexpectedEnd", "Panic"}
          /\ (decoded.kind = "Panic" => overflow_checks)

\* C9: under a limit below 16 bytes the first encode returns BufferFull and count
\* stays 0; under a limit of 16 bytes or more the first encode returns Ok and
\* count becomes 1.  (The first encode is the encode call on a fresh encoder.)
C9_FirstPointUnderCap ==
    Limited =>
        /\ (enc.buf.max_bytes < 16 => enc.count = 0)
        /\ (enc.buf.max_bytes < 16 /\ last.op = "encode" /\ ~enc.finished
               => last.res = "BufferFull")
        /\ (enc.buf.max_bytes >= 16 /\ last.op = "encode" /\ last.before = 0
               => last.res = "Ok" /\ enc.count = 1)

\* C9 witness: the first encode under a limit of 15 bytes failed after writing
\* 120 bits.
C9_Witness ==
    /\ enc.buf.max_bytes = 15
    /\ last.op = "encode" /\ last.before = 0 /\ last.res = "BufferFull"
    /\ len_bits(enc.buf) = 120

\* C10 as stated: on a limited Encoder that has not returned BufferFull, finish
\* returns Ok exactly when the bit length plus 68 is at most 8 times the limit.
C10_FinishUnderCap ==
    [][(pc = "encoding" /\ Limited /\ ~full /\ last'.op = "finish")
        => (last'.res = "Ok" <=> len_bits(enc.buf) + 68 <= 8 * enc.buf.max_bytes)]_vars

\* C10 (amended): on a limited Encoder that has not returned BufferFull and is
\* not finished yet, finish returns Ok exactly when the bit length plus 68 is at
\* most 8 times the limit, and BufferFull otherwise.
C10_FirstFinishUnderCap ==
    [][(pc = "encoding" /\ Limited /\ ~full /\ ~enc.finished /\ last'.op = "finish")
        => /\ last'.res \in {"Ok", "BufferFull"}
           /\ last'.res = "Ok" <=> len_bits(enc.buf) + 68 <= 8 * enc.buf.max_bytes]_vars

\* C10 witness: under a limit of 16 bytes finish failed after one point.
C10_Witness ==
    /\ enc.buf.max_bytes = 16 /\ enc.count = 1
    /\ last.op = "finish" /\ last.res = "BufferFull" /\ last.before = 128

\* The bit length after k successful encodes of the constant series when the
\* second point costs `second` bits and the third 2 bits.
SeriesBits(k, second) ==
    IF k = 0 THEN 0
    ELSE 128 + (IF k >= 2 THEN second ELSE 0) + (IF k >= 3 THEN 2 ELSE 0)

\* C11 as stated: for the input [(1000, 1.0), (1060, 1.0), (1120, 1.0)] every
\* point after the 128-bit header costs 2 bits, and the finished block has
\* 128 + 2 + 2 + 68 = 200 bits.
C11_ConstantSeriesCost ==
    (series = ConstantSeries /\ ~full)
    => /\ len_bits(enc.buf) = SeriesBits(enc.count, 2) + (IF enc.finished THEN 68 ELSE 0)
       /\ (last.op = "into_compressed" /\ ~truncated /\ enc.count = 3 /\ enc.finished
              => block.total_bits = 200)

\* C11 (amended): for that input the second point costs 10 bits (its delta 60
\* goes through the dod codeword '10' + 7 bits, then 1 bit for xor = 0), the
\* third costs 2 bits, and the finished block has 128 + 10 + 2 + 68 = 208 bits.
C11_ConstantSeriesCost208 ==
    (series = ConstantSeries /\ ~full)
    => /\ len_bits(enc.buf) = SeriesBits(enc.count, 10) + (IF enc.finished THEN 68 ELSE 0)
       /\ (last.op = "into_compressed" /\ ~truncated /\ enc.count = 3 /\ enc.finished
              => block.total_bits = 208)

\* C11 witness: the block of the three points, finished, was taken.
C11_Witness ==
    /\ series = ConstantSeries /\ ~full /\ input = ConstantSeries
    /\ enc.finished /\ last.op = "into_compressed" /\ ~truncated
    /\ block.total_bits = 208 /\ block.count = 3

\* C12 as stated: for any BitBuffer, any value and any n in 0..64, after
\* write_bits(value, n) returned Ok, read_bits(n) on a fresh BitReader over the
\* buffer returns value.
C12_WriteReadRoundTrip ==
    (rd.done /\ wr.op = "write_bits" /\ wr.ok)
    => rd.some /\ rd.value = wr.value

\* C12 (amended): for an empty BitBuffer, any value and any n in 0..64, after
\* write_bits(value, n) returned Ok, read_bits(n) on a fresh BitReader over the
\* buffer returns the lowest n bits of value (value itself when it is below 2^n).
C12_WriteReadLowBits ==
    (rd.done /\ wr.op = "write_bits" /\ wr.ok /\ wr.before.bytes = <<>>)
    => /\ rd.some
       /\ rd.value = wr.value \cap bitmask(wr.n)
       /\ (wr.value \subseteq bitmask(wr.n) => rd.value = wr.value)

\* C12 witness: 0x5A was written as a 5-bit field into an empty buffer and read
\* back as 0x1A.
C12_Witness ==
    /\ rd.done /\ rd.some /\ wr.op = "write_bits" /\ wr.ok
    /\ wr.before.bytes = <<>>
    /\ wr.n = 5 /\ wr.value = {1, 3, 4, 6} /\ rd.value = {1, 3, 4}

\* The bit sequence a buffer holds, in write order, and the n-bit field of a
\* value, most significant bit first.
BitsOf(b) ==
    [i \in 1..len_bits(b) |-> ByteBit(b.bytes[((i - 1) \div 8) + 1], 7 - ((i - 1) % 8))]
FieldBits(value, n) == [i \in 1..n |-> (n - i) \in value]

\* The free bits of the tail byte, and: no further byte may be added.
FreeBits(b) == IF b.bytes = <<>> THEN 0 ELSE 8 - b.bit_count
AtCap(b) == b.max_bytes # NoLimit /\ Len(b.bytes) >= b.max_bytes

\* C13: when write_bits(value, n) returns BufferFull on a buffer whose tail byte
\* is at the cap with f free bits, the buffer afterwards holds its previous bits
\* followed by the first f bits of the field and nothing else (no byte added,
\* limit unchanged); a failing write_bit leaves the buffer as it was.
C13_PartialWrite ==
    /\ (wr.op = "write_bits" /\ ~wr.ok /\ AtCap(wr.before))
          => /\ BitsOf(buf) = BitsOf(wr.before)
                                \o SubSeq(FieldBits(wr.value, wr.n), 1, FreeBits(wr.before))
             /\ Len(buf.bytes) = Len(wr.before.bytes)
             /\ buf.max_bytes = wr.before.max_bytes
    /\ (wr.op = "write_bit" /\ ~wr.ok) => buf = wr.before

\* C13 witness: under a limit of 1 byte a 64-bit write failed on a buffer of 5
\* bits and left 8 bits.
C13_Witness ==
    /\ wr.op = "write_bits" /\ ~wr.ok /\ wr.n = 64
    /\ AtCap(wr.before) /\ FreeBits(wr.before) = 3
    /\ len_bits(wr.before) = 5 /\ len_bits(buf) = 8

\* The shape of a BitBuffer: bit_count is 0 exactly when there is no byte;
\* otherwise it lies in 1..8 and len_bits is 8 * (bytes - 1) + bit_count.
Shape(b) ==
    /\ b.bit_count = 0 <=> b.bytes = <<>>
    /\ b.bytes = <<>> => len_bits(b) = 0
    /\ b.bytes # <<>> => /\ b.bit_count \in 1..8
                         /\ len_bits(b) = 8 * (Len(b.bytes) - 1) + b.bit_count

\* C14: every BitBuffer reached from new / with_capacity / with_limit by
\* write_bit, write_bits and set_limit calls, successful or failing, has that
\* shape (the encoder's own buffer included).
C14_BufferShape == Shape(buf) /\ Shape(enc.buf)

\* C14 witness: 64 bits were written, the limit was lowered to 1 byte and a
\* write_bit failed on the full tail byte.
C14_Witness ==
    /\ wr.op = "write_bit" /\ ~wr.ok
    /\ buf.bit_count = 8 /\ Len(buf.bytes) = 8 /\ buf.max_bytes = 1

\* C15: every block returned by into_compressed, after any encode and finish
\* calls (BufferFull results included, no call at all included), has
\* total_bits <= 8 * len(bytes) and fewer than 8 padding bits.
C15_BlockBitLength ==
    (last.op = "into_compressed" /\ ~truncated)
    => /\ block.total_bits <= 8 * Len(block.bytes)
       /\ 8 * Len(block.bytes) - block.total_bits < 8

\* C15 witness: the block of a finished encoder with points ends in a partly
\* filled byte.
C15_Witness ==
    /\ last.op = "into_compressed" /\ ~truncated
    /\ enc.finished /\ enc.count >= 1
    /\ 8 * Len(block.bytes) - block.total_bits \in 1..7

\* The bits of the tail byte beyond the written bit length are zero.
ZeroPadded(b) ==
    b.bytes = <<>> \/ b.bytes[Len(b.bytes)] % Pow2(8 - b.bit_count) = 0

\* C16: in every BitBuffer reached from an empty buffer by writes (direct ones,
\* or those of encode and finish), all bits of the tail byte beyond the written
\* bit length are zero.
C16_ZeroPadding == ZeroPadded(buf) /\ ZeroPadded(enc.buf)

\* C16 witness: 0x5A written as a 5-bit field leaves the byte 1101_0000.
C16_Witness ==
    /\ wr.op = "write_bits" /\ wr.ok
    /\ buf.bit_count = 5 /\ buf.bytes = <<208>>

\* s is a prefix of t.
IsPrefix(s, t) == Len(s) <= Len(t) /\ SubSeq(t, 1, Len(s)) = s

\* C17: every write_bit, write_bits, encode and finish call, successful or
\* failing, leaves the bits written before it unchanged and in place and never
\* shortens the buffer: the bit sequence after the call extends the one before.
C17_AppendOnly ==
    [][/\ IsPrefix(BitsOf(buf), BitsOf(buf'))
       /\ IsPrefix(BitsOf(enc.buf), BitsOf(enc'.buf))]_vars

\* C17 witness: an encode that returned BufferFull after a successful one had
\* lengthened the buffer.
C17_Witness ==
    /\ last.op = "encode" /\ last.res = "BufferFull"
    /\ enc.count >= 1
    /\ len_bits(enc.buf) > last.before

\* C18: once next has returned an Err item or None, every later call returns
\* None: the iterator yields at most one Err, and nothing after it.
C18_IterExhausted ==
    \A i, j \in 1..Len(yielded) :
        (i < j /\ yielded[i].item \in {"None", "UnexpectedEnd", "Empty"})
        => yielded[j].item = "None"

\* C18 witness: after at least one point next returned Err(UnexpectedEnd), then
\* None twice.
C18_Witness ==
    \E i \in 2..Len(yielded) :
        /\ yielded[i - 1].item = "Point"
        /\ yielded[i].item = "UnexpectedEnd"
        /\ Len(yielded) = i + 2
        /\ yielded[i + 1].item = "None" /\ yielded[i + 2].item = "None"

NonIncreasing(s) == \A i \in 1..(Len(s) - 1) : U64Le(s[i + 1].timestamp, s[i].timestamp)

Timestamps(s) == [i \in 1..Len(s) |-> s[i].timestamp]

\* C21: non-monotone input is exact.  Every non-empty sequence of points whose
\* timestamps never increase, encoded and finished by an unlimited Encoder,
\* decodes to Ok with exactly the input timestamps.
C21_NonMonotoneExact ==
    (Decoded /\ Unlimited /\ enc.finished /\ ~truncated /\ input # <<>>
        /\ NonIncreasing(input))
    => /\ decoded.kind = "Ok"
       /\ Timestamps(decoded.points) = Timestamps(input)

\* C22: wraparound arithmetic.  No encode call of an unfinished encoder aborts
\* on an overflow of the delta or of the delta-of-delta, no decode of a finished
\* block aborts on an overflow of prev_delta or prev_timestamp, and every
\* timestamp decodes to the one that was encoded, also across 2^63 and for
\* differences that do not fit an i64.
C22_WrappingArithmetic ==
    /\ (last.op = "encode" /\ ~enc.finished) => last.res # "Panic"
    /\ (Decoded /\ Unlimited /\ enc.finished /\ ~truncated /\ input # <<>>)
       => /\ decoded.kind = "Ok"
          /\ Timestamps(decoded.points) = Timestamps(input)
    /\ (Unlimited /\ enc.finished /\ ~truncated)
       => \A i \in 1..Len(yielded) : yielded[i].item # "Panic"

\* C22 without the sign error of the 7-, 9- and 12-bit codewords, in a build
\* that wraps on overflow: the wrap series encodes and decodes exactly.
C22_WrapSeriesExactWhenWrapping ==
    (Decoded /\ series = WrapSeries /\ ~overflow_checks /\ Unlimited /\ enc.finished
        /\ ~truncated /\ input # <<>>)
    => decoded = DecRes("Ok", input)

\* C22 in a build with overflow checks: the second point of the wrap series is
\* never encoded, the encode call aborts.
C22_WrapSeriesAbortsWhenChecked ==
    (series = WrapSeries /\ overflow_checks) => Len(input) <= 1

\* The buffer ends with the 68 bits of the end marker.
EndsWithMarker(b) ==
    /\ len_bits(b) >= 68
    /\ \A i \in (len_bits(b) - 67)..len_bits(b) : BitsOf(b)[i]

\* C23: encode after finish is an abort, not an error value.  Once finish has
\* returned Ok every encode call aborts on its assertion and leaves the encoder
\* (buffer and count included) as it was, so a finished encoder's buffer always
\* ends with the end marker: no point codeword follows it.
C23_EncodeAfterFinishAborts ==
    /\ [](enc.finished => EndsWithMarker(enc.buf))
    /\ [][(enc.finished /\ pc = "encoding" /\ last'.op = "encode")
            => (last'.res = "Panic" /\ pc' = "panicked" /\ enc' = enc
                /\ input' = input)]_vars

\* An encode call on a finished encoder that holds a point has aborted.
C23_Witness ==
    /\ enc.finished /\ enc.count >= 1
    /\ last.op = "encode" /\ last.res = "Panic" /\ pc = "panicked"
    /\ EndsWithMarker(enc.buf)

\* The first total_bits bits of bytes with everything after them cleared and
\* cut off, and with everything after them set and one more byte appended.
ClearPad(bytes, total_bits) ==
    [i \in 1..((total_bits + 7) \div 8) |->
        IF 8 * i <= total_bits THEN bytes[i]
        ELSE bytes[i] - (bytes[i] % Pow2(8 * i - total_bits))]
SetPad(bytes, total_bits) ==
    Append([i \in 1..((total_bits + 7) \div 8) |->
               IF 8 * i <= total_bits THEN bytes[i]
               ELSE ClearPad(bytes, total_bits)[i] + Pow2(8 * i - total_bits) - 1],
           255)

ReaderInBounds(r) == 0 <= r.pos /\ r.pos <= r.total_bits

\* The last direct call made again on a reader over other bytes, at the position
\* the call was made at.
Replay(bytes) ==
    Bind([bytes |-> bytes, total_bits |-> reader.total_bits, pos |-> got.before],
         LAMBDA r0 :
         IF got.op = "read_bit" THEN read_bit(r0)
         ELSE IF got.op = "read_bits" THEN read_bits(r0, got.n)
         ELSE peek_bit(r0))
SameAnswer(a) ==
    /\ a.some = got.some /\ a.value = got.value /\ a.bit = got.bit
    /\ a.reader.pos = reader.pos

\* C24: BitReader bound.  The position of a reader stays within 0..total_bits;
\* the answer of read_bit, read_bits and peek_bit is the same whatever the bits
\* at and after index total_bits are and however many bytes follow; and
\* decode_raw gives the same result on two inputs that agree on total_bits and
\* on the first total_bits bits.
C24_ReaderBound ==
    /\ ReaderInBounds(reader) /\ ReaderInBounds(it.reader)
    /\ got.op # "from_raw"
       => /\ SameAnswer(Replay(ClearPad(reader.bytes, reader.total_bits)))
          /\ SameAnswer(Replay(SetPad(reader.bytes, reader.total_bits)))
    /\ pc = "decoded"
       => /\ decoded = decode_raw(ClearPad(block.bytes, block.total_bits),
                                  block.total_bits, overflow_checks)
          /\ decoded = decode_raw(SetPad(block.bytes, block.total_bits),
                                  block.total_bits, overflow_checks)

\* A reader over 11 valid bits of two bytes whose other 5 bits are set, at
\* position 9: read_bits(3) has answered None and left the position alone.
C24_Witness ==
    /\ pc = "reading" /\ reader.bytes = <<165, 255>> /\ reader.total_bits = 11
    /\ got.op = "read_bits" /\ got.n = 3 /\ got.before = 9 /\ ~got.some
    /\ reader.pos = 9

\* C25: delta-of-delta codeword round trip.  For every dod of the tabulated
\* ranges, the end points 64, 256, 2048, -63, -255 and -2047 included, the value
\* decode_delta_of_delta returns for the codeword encode_delta_of_delta wrote is
\* dod.
C25_DodRoundTrip ==
    (pc = "codeword" /\ dec # NotRead) => (dec.kind = "Value" /\ dec.dod = wr.value)

\* C25 away from the upper end points: every dod other than 64, 256 and 2048
\* decodes to itself.
C25_DodRoundTripBelowUpperEnd ==
    (pc = "codeword" /\ dec # NotRead /\ wr.value \notin {I64(64), I64(256), I64(2048)})
    => (dec.kind = "Value" /\ dec.dod = wr.value)

\* C25 at the upper end points: 64, 256 and 2048 decode to their negations.
C25_UpperEndNegated ==
    \A n \in {64, 256, 2048} :
        (pc = "codeword" /\ dec # NotRead /\ wr.value = I64(n)) => dec.dod = I64(-n)

\* The bits the last direct call appended to buf.
WrittenBits == SubSeq(BitsOf(buf), len_bits(wr.before) + 1, len_bits(buf))

\* The tabulated codeword of dod: the prefix of its range, then the low 7, 9, 12
\* or 64 bits of dod, most significant first.
Between(dod, lo, hi) == IsSmallI64(dod) /\ lo <= I64ToInt(dod) /\ I64ToInt(dod) <= hi
DodCodeword(dod) ==
    IF dod = {} THEN <<FALSE>>
    ELSE IF Between(dod, -63, 64) THEN <<TRUE, FALSE>> \o FieldBits(dod, 7)
    ELSE IF Between(dod, -255, 256) THEN <<TRUE, TRUE, FALSE>> \o FieldBits(dod, 9)
    ELSE IF Between(dod, -2047, 2048)
    THEN <<TRUE, TRUE, TRUE, FALSE>> \o FieldBits(dod, 12)
    ELSE <<TRUE, TRUE, TRUE, TRUE>> \o FieldBits(dod, 64)

\* C26: delta-of-delta bucket selection.  encode_delta_of_delta writes 1 bit
\* for 0, prefix 10 and 9 bits in -63..64, prefix 110 and 12 bits in -255..256,
\* prefix 1110 and 16 bits in -2047..2048, prefix 1111 and 68 bits otherwise,
\* the payload being the low bits of dod; decode_delta_of_delta consumes exactly
\* the bits of the codeword.
C26_DodBuckets ==
    (pc = "codeword" /\ wr.op = "encode_delta_of_delta")
    => /\ wr.ok
       /\ WrittenBits = DodCodeword(wr.value)
       /\ Len(WrittenBits) \in {1, 9, 12, 16, 68}
       /\ dec # NotRead => dec.kind # "Err" /\ dec.reader.pos = len_bits(buf)

\* The codeword of the end point 64 written after three other bits and decoded:
\* 9 bits, all consumed.
C26_Witness ==
    /\ pc = "codeword" /\ wr.value = I64(64) /\ len_bits(wr.before) = 3
    /\ Len(WrittenBits) = 9 /\ dec # NotRead /\ dec.reader.pos = 12

\* C27: point count of a terminated block.  For every block of an Encoder with
\* n >= 1 successful encodes followed by a successful finish, decode returns Ok
\* with exactly n = block.count points.
C27_TerminatedCount ==
    (Decoded /\ enc.finished /\ ~truncated /\ enc.count >= 1)
    => /\ decoded.kind = "Ok"
       /\ Len(decoded.points) = block.count
       /\ block.count = Len(input)

\* C27 in a build that wraps on overflow: there the count always holds.
C27_TerminatedCountWrapping ==
    (Decoded /\ enc.finished /\ ~truncated /\ enc.count >= 1 /\ ~overflow_checks)
    => /\ decoded.kind = "Ok"
       /\ Len(decoded.points) = block.count
       /\ block.count = Len(input)

\* The 68 bits of b after the first k are the end marker: 1111 and 64 ones.
MarkerAt(b, k) ==
    /\ len_bits(b) >= k + 68
    /\ \A i \in (k + 1)..(k + 68) : BitsOf(b)[i]

\* C28: reserved sentinel payload.  No encode call writes a dod codeword of
\* prefix 1111 and payload 0xFFFF_FFFF_FFFF_FFFF, whatever the points are (a dod
\* of -1 goes to the 7-bit codeword); the first finish that returns Ok is what
\* writes that pattern.
C28_SentinelReserved ==
    /\ (pc = "codeword" /\ wr.op = "encode_delta_of_delta")
       => ~MarkerAt(buf, len_bits(wr.before))
    /\ (last.op = "encode" /\ last.res \in {"Ok", "BufferFull"}
           /\ (enc.count >= 2 \/ (enc.count = 1 /\ last.res = "BufferFull")))
       => ~MarkerAt(enc.buf, last.before)
    /\ (last.op = "finish" /\ last.res = "Ok" /\ len_bits(enc.buf) > last.before)
       => MarkerAt(enc.buf, last.before)

\* The third point of the series of dod -1 has just been encoded.
C28_Witness ==
    /\ series = MinusOneSeries /\ last.op = "encode" /\ last.res = "Ok"
    /\ enc.count = 3 /\ enc.prev_delta = I64(-2)
    /\ ~MarkerAt(enc.buf, last.before)

\* The codewords after the header, decoded one after the other as
\* decode_from_reader and DecoderIter::next both do, up to the marker or the
\* first error: for each its dod and the branch decode_value takes on its value.
RECURSIVE codewords(_, _, _, _, _)
codewords(r, prev_value_bits, leading, trailing, checks) ==
    Bind(decode_delta_of_delta(r), LAMBDA d :
    IF d.kind # "Value" THEN <<>>
    ELSE Bind(decode_value(d.reader, prev_value_bits, leading, trailing, checks), LAMBDA v :
    IF v.kind # "Ok" THEN <<[dod |-> d.dod, form |-> value_form(d.reader)]>>
    ELSE <<[dod |-> d.dod, form |-> value_form(d.reader)]>>
         \o codewords(v.reader, v.value_bits, v.leading, v.trailing, checks)))
BlockCodewords ==
    Bind(read_bits(BitReader_from_raw(block.bytes, block.total_bits), 64), LAMBDA ts :
    IF ~ts.some THEN <<>>
    ELSE Bind(read_bits(ts.reader, 64), LAMBDA val_bits :
    IF ~val_bits.some THEN <<>>
    ELSE codewords(val_bits.reader, val_bits.value, 0, 0, overflow_checks)))
BlockForms == [i \in 1..Len(BlockCodewords) |-> BlockCodewords[i].form]

\* No reuse form before the first new-window form.
NewBeforeReuse(forms) ==
    \A i \in 1..Len(forms) :
        forms[i] = "reuse" => \E j \in 1..(i - 1) : forms[j] = "new"

\* C29: first-window agreement.  The encoder's window is the sentinel (64, 64)
\* exactly while no encoded value differed from its predecessor, so the first
\* non-zero XOR is written in the new-window form; and in every stream the
\* encoder produced (finished or not, cut by the limit or not) the decoders
\* meet no reuse form before the first new-window form, that is, never while
\* their window is the initial (0, 0).
C29_FirstWindowNew ==
    /\ (enc.prev_leading_zeros = 64 /\ enc.prev_trailing_zeros = 64)
       \/ (enc.prev_leading_zeros < 64 /\ enc.prev_trailing_zeros < 64)
    /\ (enc.prev_leading_zeros = 64)
       <=> (\A i \in 1..Len(input) : input[i].value = input[1].value)
    /\ (pc = "decoded" /\ ~truncated) => NewBeforeReuse(BlockForms)

\* A block whose second point opens a window and whose third reuses it.
C29_Witness ==
    /\ pc = "decoded" /\ ~truncated /\ enc.finished
    /\ BlockForms = <<"new", "reuse">>

PhaseRank(state) == IF state = "Initial" THEN 0 ELSE IF state = "SecondPoint" THEN 1 ELSE 2

\* The delta after the k-th codeword: the first dod, then each dod added.
RECURSIVE DeltaAfter(_, _)
DeltaAfter(cw, k) ==
    IF k = 1 THEN cw[1].dod ELSE wrapping_add(DeltaAfter(cw, k - 1), cw[k].dod)

\* The points follow the codewords: each timestamp is the one before plus the
\* delta after its codeword.
FollowsDeltas(points, cw) ==
    /\ Len(points) = Len(cw) + 1
    /\ \A k \in 1..Len(cw) :
          points[k + 1].timestamp = wrapping_add(points[k].timestamp, DeltaAfter(cw, k))

\* C30: decoder phase machine.  The iterator's phase only moves Initial ->
\* SecondPoint -> Subsequent; it is Initial exactly while no point has been
\* yielded; the dod of the first codeword after the header replaces prev_delta
\* and the dod of every later codeword is added to it; the points decode returns
\* follow the same rule.
C30_PhaseMachine ==
    /\ [](pc = "iterating"
            => ((it.state = "Initial")
                  <=> (\A i \in 1..Len(yielded) : yielded[i].item # "Point")))
    /\ []((pc = "decoded" /\ decoded.kind = "Ok")
            => FollowsDeltas(decoded.points, BlockCodewords))
    /\ [][/\ PhaseRank(it'.state) >= PhaseRank(it.state)
          /\ PhaseRank(it'.state) <= PhaseRank(it.state) + 1
          /\ (pc = "iterating" /\ pc' = "iterating" /\ ~it.done /\ it.state # "Initial"
                /\ decode_delta_of_delta(it.reader).kind = "Value")
             => /\ it'.state = "Subsequent"
                /\ it'.prev_delta =
                      IF it.state = "SecondPoint"
                      THEN decode_delta_of_delta(it.reader).dod
                      ELSE wrapping_add(it.prev_delta,
                                        decode_delta_of_delta(it.reader).dod)]_vars

\* The iterator has yielded the three points of the constant series: the second
\* dod (0) was added to the first (60).
C30_Witness ==
    /\ pc = "iterating" /\ series = ConstantSeries /\ ~truncated
    /\ Len(yielded) = 3 /\ \A i \in 1..3 : yielded[i].item = "Point"
    /\ it.state = "Subsequent" /\ it.prev_delta = U64(60)
    /\ decoded.kind = "Ok" /\ Len(decoded.points) = 3

\* A new byte is needed and the limit forbids it.
MustGrow(b) == b.bytes = <<>> \/ b.bit_count = 8
Refuses(b) == b.max_bytes # NoLimit /\ MustGrow(b) /\ Len(b.bytes) >= b.max_bytes

\* C31: capacity rule.  write_bit returns BufferFull exactly when a limit is
\* set, the tail byte is full or the buffer is empty, and the buffer holds at
\* least that many bytes; otherwise it returns Ok and the bit length grows by
\* one.  On a buffer within its limit m, write_bits(v, n) returns Ok exactly
\* when len_bits + n <= 8 * m; with no limit no write fails.
C31_CapacityRule ==
    /\ wr.op = "write_bit"
       => /\ ~wr.ok <=> Refuses(wr.before)
          /\ wr.ok => len_bits(buf) = len_bits(wr.before) + 1
          /\ ~wr.ok => buf = wr.before
    /\ (wr.op = "write_bits" /\ wr.before.max_bytes # NoLimit
           /\ len_bits(wr.before) <= 8 * wr.before.max_bytes)
       => (wr.ok <=> len_bits(wr.before) + wr.n <= 8 * wr.before.max_bytes)
    /\ (wr.op \in {"write_bit", "write_bits"} /\ wr.before.max_bytes = NoLimit)
       => wr.ok

\* A write_bits of 5 bits on a 9-byte buffer holding 69 bits has failed.
C31_Witness ==
    /\ wr.op = "write_bits" /\ ~wr.ok /\ wr.n = 5
    /\ wr.before.max_bytes = 9 /\ len_bits(wr.before) = 69

\* The valid bits of the tail byte a write goes to, and that byte's value: a
\* new zero byte when the buffer is empty or its tail byte is full.
TailBits(b) == IF MustGrow(b) THEN 0 ELSE b.bit_count
TailByte(b) == IF MustGrow(b) THEN 0 ELSE b.bytes[Len(b.bytes)]
BytesBefore(b) == IF MustGrow(b) THEN b.bytes ELSE SubSeq(b.bytes, 1, Len(b.bytes) - 1)

\* C32: bit order.  A successful write_bit(true) on a tail byte holding k valid
\* bits sets bit 7 - k of that byte, write_bit(false) leaves its value
\* unchanged, and the bytes before it stay as they were; a successful
\* write_bits(value, n) appends bit n - 1 of value first and bit 0 last.
C32_BitOrder ==
    /\ (wr.op = "write_bit" /\ wr.ok)
       => /\ buf.bytes = Append(BytesBefore(wr.before),
                                TailByte(wr.before)
                                + (IF 0 \in wr.value THEN Pow2(7 - TailBits(wr.before)) ELSE 0))
          /\ buf.bit_count = TailBits(wr.before) + 1
    /\ (wr.op = "write_bits" /\ wr.ok)
       => BitsOf(buf) = BitsOf(wr.before) \o FieldBits(wr.value, wr.n)

\* A write_bit(true) has gone into a non-zero tail byte of two valid bits.
C32_Witness ==
    /\ wr.op = "write_bit" /\ wr.ok /\ 0 \in wr.value
    /\ TailBits(wr.before) = 2 /\ TailByte(wr.before) # 0

\* An encode or finish call is made on an encoder on which an earlier encode or
\* finish returned BufferFull.
CallAfterFull == pc = "encoding" /\ full /\ last'.op \in {"encode", "finish"} /\ pc' # "block"

\* C33: BufferFull is absorbing.  Once an encode or finish call has returned
\* BufferFull, every later encode and finish call returns BufferFull too and
\* changes neither the buffer nor count, so the encoder is never finished and
\* its buffer never ends with the end marker.
C33_BufferFullAbsorbing ==
    /\ [](full => (~enc.finished /\ ~EndsWithMarker(enc.buf)))
    /\ [][CallAfterFull
            => (last'.res = "BufferFull" /\ enc'.buf = enc.buf
                /\ enc'.count = enc.count)]_vars

\* C33 in a build that wraps on overflow: there BufferFull is absorbing.
C33_AbsorbingWhenWrapping ==
    [][(CallAfterFull /\ ~overflow_checks)
         => (last'.res = "BufferFull" /\ enc' = enc)]_vars

\* C33 in a build with overflow checks: a call after BufferFull returns
\* BufferFull or aborts, and leaves the encoder as it was.
C33_FullOrAbortWhenChecked ==
    /\ [](full => (~enc.finished /\ ~EndsWithMarker(enc.buf)))
    /\ [][CallAfterFull
            => (last'.res \in {"BufferFull", "Panic"} /\ enc' = enc)]_vars

\* An encode call has aborted on an encoder that had returned BufferFull.
C33_AbortAfterFull ==
    full /\ last.op = "encode" /\ last.res = "Panic" /\ ~enc.finished

\* C34: frame of a failed encode.  When encode returns BufferFull only the bit
\* buffer may have changed, by bits appended to it: count, prev_timestamp,
\* prev_delta, prev_value_bits, prev_leading_zeros, prev_trailing_zeros and
\* finished keep the values they had before the call, and so does the limit.
C34_FailedEncodeFrame ==
    [][(pc = "encoding" /\ pc' = "encoding" /\ last'.op = "encode"
           /\ last'.res = "BufferFull")
         => /\ enc' = [enc EXCEPT !.buf = enc'.buf]
            /\ enc'.buf.max_bytes = enc.buf.max_bytes
            /\ IsPrefix(BitsOf(enc.buf), BitsOf(enc'.buf))]_vars

\* A third encode has returned BufferFull after filling the 25 bytes of the
\* buffer with a part of its codewords; the encoder still holds two points.
C34_Witness ==
    /\ last.op = "encode" /\ last.res = "BufferFull"
    /\ enc.count = 2 /\ last.before < 200 /\ len_bits(enc.buf) = 200
    /\ enc.prev_timestamp = input[2].timestamp

\* The encoder an unlimited Encoder::new() becomes by the successful calls made
\* so far: an encode of every point of input, then finish if it was called.
UnlimitedRun ==
    Bind(ForLoop(LAMBDA e, k : encode(e, input[k], overflow_checks).enc,
                 Encoder_new, 1, Len(input)),
         LAMBDA e : IF enc.finished THEN finish(e).enc ELSE e)

\* C35: the byte cap is transparent.  As long as every call on a limited
\* encoder has returned Ok, the encoder differs from the unlimited one that
\* received the same calls in its limit only; the block taken from it (bytes,
\* total_bits, count) is the unlimited encoder's block and decodes to the same
\* result.
C35_CapTransparent ==
    (Limited /\ ~full)
    => /\ pc = "encoding" => [enc EXCEPT !.buf.max_bytes = NoLimit] = UnlimitedRun
       /\ (pc = "block" /\ ~truncated) => block = into_compressed(UnlimitedRun)
       /\ (pc = "decoded" /\ ~truncated)
          => decoded = decode(into_compressed(UnlimitedRun), overflow_checks)

\* A block of three points and the end marker that fills the 26 bytes its
\* encoder was limited to has been decoded.
C35_Witness ==
    /\ pc = "decoded" /\ ~truncated /\ ~full
    /\ enc.buf.max_bytes = 26 /\ enc.finished /\ block.count = 3
    /\ block.total_bits = 208
    /\ decoded = decode(into_compressed(UnlimitedRun), overflow_checks)

\* The next point continues a constant series: same value, same interval.
Continues(e, dp) ==
    /\ e.count >= 2
    /\ dp.value = e.prev_value_bits
    /\ wrapping_sub(dp.timestamp, e.prev_timestamp) = e.prev_delta

\* C36: compression of a constant series.  Every point from the third on that
\* repeats the value and the interval adds exactly 2 bits to the stream, in the
\* 10,000-point series and in every other input; the finished block of the
\* 10,000 points at a 60-second interval has fewer than 4,000 bytes, 1/40 of
\* 16 bytes per point.
C36_ConstantSeriesCompression ==
    /\ [](pc = "series"
            => /\ run.res = "Ok"
               /\ run.enc.finished
                  => /\ into_compressed(run.enc).count = RunPoints
                     /\ Len(into_compressed(run.enc).bytes) < 4000
                     /\ 40 * Len(into_compressed(run.enc).bytes) < 16 * RunPoints)
    /\ [][(pc = "series" /\ run'.enc.count >= 3 /\ run'.enc.count # run.enc.count)
            => len_bits(run'.enc.buf) = len_bits(run.enc.buf) + 2]_vars
    /\ [][(pc = "encoding" /\ last'.op = "encode" /\ last'.res = "Ok"
             /\ enc'.count # enc.count /\ Continues(enc, input'[Len(input')]))
            => len_bits(enc'.buf) = len_bits(enc.buf) + 2]_vars

\* The 10,000 points are encoded and finished: 128 + 10 + 2 * 9998 + 68 bits.
C36_Witness ==
    /\ pc = "series" /\ run.enc.finished /\ run.enc.count = 10000
    /\ len_bits(run.enc.buf) = 20202 /\ Len(run.enc.buf.bytes) = 2526

\* The most points a stream of total_bits bits can hold: 128 bits for the
\* first, at least 2 for every other one.
PointBound(total_bits) == IF total_bits < 128 THEN 0 ELSE 1 + (total_bits - 128) \div 2
PointsIn(items) == Cardinality({i \in 1..Len(items) : items[i].item = "Point"})
Aborted(items) == \E i \in 1..Len(items) : items[i].item = "Panic"

\* A next call on iterator a has given item and left iterator b: a point costs
\* at least 2 bits, anything else but an abort ends the iterator.
NextStep(a, item, b) ==
    /\ item = "Point" => b.reader.pos >= a.reader.pos + 2
    /\ item \notin {"Point", "Panic"} => b.done
    /\ a.done => (item = "None" /\ b = a)

\* Every decode ends with a result or an abort, and holds no more points than
\* the bits allow; every next call makes progress or ends the iterator.
C37_TerminatesOrAborts ==
    /\ [](/\ raw.decoded.kind = "Ok"
             => Len(raw.decoded.points) <= PointBound(raw.total_bits)
          /\ decoded.kind = "Ok" => Len(decoded.points) <= PointBound(block.total_bits)
          /\ PointsIn(raw.yielded) <= PointBound(raw.total_bits)
          /\ PointsIn(yielded) <= PointBound(block.total_bits))
    /\ [][raw'.yielded # raw.yielded
            => NextStep(raw.it, raw'.yielded[Len(raw'.yielded)].item, raw'.it)]_vars
    /\ [][yielded' # yielded
            => NextStep(it, yielded'[Len(yielded')].item, it')]_vars

\* C37: decoding terminates.  For every input with total_bits <= 8 * len(bytes)
\* decode_raw returns a result and the iterator reaches None: no call aborts,
\* every point after the first consumes at least 2 bits, and at most
\* 1 + (total_bits - 128) / 2 points are produced.
C37_DecodingTerminates ==
    /\ C37_TerminatesOrAborts
    /\ [](pc = "raw" => (raw.decoded.kind # "Panic" /\ ~Aborted(raw.yielded)))

\* C37 in a build that wraps on overflow: no call on outside bytes aborts, and
\* the iterator has ended once next has returned something else than a point.
C37_ReturnsWhenWrapping ==
    (pc = "raw" /\ ~overflow_checks)
    => /\ raw.decoded.kind # "Panic" /\ ~Aborted(raw.yielded)
       /\ PointsIn(raw.yielded) < Len(raw.yielded) => raw.it.done

\* The iterator over 17 zero bytes has given 1 + 8 / 2 points and ended.
C37_FullyPacked ==
    /\ pc = "raw" /\ raw.total_bits = 136 /\ PointsIn(raw.yielded) = 5
    /\ raw.it.done /\ raw.it.reader.pos = 136

\* The fields <<leading, meaningful_bits>> of the new-window value codeword the
\* next call on iterator a reads, if it reads one: the 6-bit leading count and
\* the 6-bit length field plus 1.
WindowAhead(a) ==
    IF a.done \/ a.state = "Initial" THEN {}
    ELSE Bind(decode_delta_of_delta(a.reader), LAMBDA d :
         IF d.kind # "Value" \/ value_form(d.reader) # "new" THEN {}
         ELSE Bind(read_bits([d.reader EXCEPT !.pos = @ + 2], 6), LAMBDA l :
              IF ~l.some THEN {}
              ELSE Bind(read_bits(l.reader, 6), LAMBDA m :
                   IF ~m.some THEN {}
                   ELSE {<<LowNat(l.value, 6), LowNat(m.value, 6) + 1>>})))

\* C38: decoder robustness on arbitrary input.  For every byte string and every
\* total_bits <= 8 * len(bytes) decoding ends with points or a DecodeError, not
\* with an abort; whenever a new-window value codeword is read its leading
\* count plus its meaningful length is at most 64, so the trailing count the
\* decoder keeps is never negative and every shift amount is below 64.
C38_DecoderRobust ==
    /\ pc = "raw" => /\ raw.decoded.kind \in {"None", "Ok", "Empty", "UnexpectedEnd"}
                     /\ \A i \in 1..Len(raw.yielded) :
                           raw.yielded[i].item \in {"None", "Point", "Empty", "UnexpectedEnd"}
    /\ \A w \in WindowAhead(raw.it) \cup WindowAhead(it) : w[1] + w[2] <= 64
    /\ raw.it.prev_leading_zeros + raw.it.prev_trailing_zeros < 64
    /\ it.prev_leading_zeros + it.prev_trailing_zeros < 64

\* C38 for the streams an encoder wrote, whole or cut short: there every new
\* window read fits the word and the trailing count is below 64.
C38_EncoderWindowsFit ==
    /\ \A w \in WindowAhead(it) : w[1] + w[2] <= 64
    /\ it.prev_leading_zeros + it.prev_trailing_zeros < 64

\* The iterator over bytes from outside is about to read a new window of
\* leading 63 and length 64.
C38_WindowBeyondWord ==
    pc = "raw" /\ <<63, 64>> \in WindowAhead(raw.it)

\* In a build that wraps on overflow that window was read: the trailing count
\* kept is 64 - 63 - 64 modulo 256.
C38_TrailingWrapped ==
    /\ pc = "raw" /\ ~overflow_checks
    /\ raw.it.prev_leading_zeros = 63 /\ raw.it.prev_trailing_zeros = 193

\* C39: BitBuffer::from_raw preserves the bit length.  For every byte vector
\* and every total_bits <= 8 * len(bytes) the buffer from_raw returns has
\* len_bits() = total_bits and satisfies the BitBuffer invariant: bit_count is
\* 0 exactly when the byte sequence is empty, and 1..8 otherwise.
C39_FromRawPreservesLength ==
    (pc = "raw" /\ raw.buf.res # "None" /\ raw.total_bits <= 8 * Len(raw.bytes))
    => /\ raw.buf.res = "Ok"
       /\ len_bits(raw.buf.buf) = raw.total_bits
       /\ Shape(raw.buf.buf)

\* What from_raw does give: the bytes whole, and a bit_count of total_bits % 8,
\* or 8 when that is 0; len_bits() is total_bits and the invariant holds when
\* total_bits reaches into the last byte.
C39_FromRawKeepsBytes ==
    (pc = "raw" /\ raw.buf.res # "None")
    => /\ raw.buf.res = "Ok"
       /\ raw.buf.buf.bytes = raw.bytes
       /\ raw.buf.buf.bit_count = (IF raw.total_bits % 8 = 0 THEN 8 ELSE raw.total_bits % 8)
       /\ (raw.bytes # <<>> /\ 8 * (Len(raw.bytes) - 1) < raw.total_bits)
          => (len_bits(raw.buf.buf) = raw.total_bits /\ Shape(raw.buf.buf))

\* from_raw on two bytes with total_bits = 8 gave a buffer of 16 bits.
C39_LengthNotKept ==
    /\ pc = "raw" /\ raw.buf.res = "Ok"
    /\ Len(raw.bytes) = 2 /\ raw.total_bits = 8 /\ len_bits(raw.buf.buf) = 16

\* from_raw on no bytes gave an empty buffer whose bit_count is 8.
C39_EmptyWithEight ==
    /\ pc = "raw" /\ raw.buf.res = "Ok"
    /\ raw.bytes = <<>> /\ raw.buf.buf.bit_count = 8

====
